---- MODULE Spec2Model ----
(***************************************************************************)
(* A model of the pypdf object layer: the reader's cross-reference walk    *)
(* and lazy object resolution (pdfreader.py), reference cloning            *)
(* (generic.py) and the writer's object list, sweep and output             *)
(* (pdfwriter.py).                                                         *)
(*                                                                         *)
(* Python objects that have identity (dictionaries, arrays, streams) live  *)
(* in `heap`; a value that refers to one is a Ptr.  An exception is the    *)
(* `exc` field of an operator's result ("none" when it returned).          *)
(***************************************************************************)
EXTENDS Integers, Sequences, FiniteSets, TLC

VARIABLES
    heap,       \* address -> cell: every live dictionary / array / stream object
    readers,    \* reader name -> the state of that PdfFileReader
    wr,         \* the state of the PdfFileWriter
    last        \* the last operation performed and what it returned or raised

vars == <<heap, readers, wr, last>>

-----------------------------------------------------------------------------
(* Bounds of the model                                                     *)

MaxSections == 2        \* cross-reference sections in a file's chain
MaxDepth == 12          \* nested calls before Python raises RecursionError
MaxWalk == 4            \* sections a walk reads at most
MaxPairs == 2           \* header pairs of an object stream
MaxCalls == 3           \* calls made on a writer and its source documents
MaxPlaces == 6          \* decimal places of a real number
MaxBuffer == 3          \* bytes of a short buffer given to a codec
MaxFilters == 2         \* filters of a stream
MaxKeys == 3            \* (key, value) pairs of a parsed dictionary
MaxPayload == 3         \* bytes of a stream payload
MaxString == 4          \* bytes between the parentheses of a literal string
MaxRows == 2            \* rows of predicted data
MaxPages == 5           \* page numbers given to insert_page and remove_page

-----------------------------------------------------------------------------
(* Finite maps (Python dict)                                               *)

EmptyMap == [x \in {} |-> 0]

Put(f, k, v) == [x \in (DOMAIN f) \cup {k} |-> IF x = k THEN v ELSE f[x]]

Del(f, k) == [x \in (DOMAIN f) \ {k} |-> f[x]]

Has(f, k) == k \in DOMAIN f

-----------------------------------------------------------------------------
(* Values                                                                  *)

Null == [t |-> "null"]
Num(n) == [t |-> "num", v |-> n]
Name(s) == [t |-> "name", s |-> s]
Ptr(a) == [t |-> "ptr", a |-> a]
\* generic.py IndirectObject.__init__: (idnum, generation, pdf)
IndirectObject(idnum, generation, pdf) ==
    [t |-> "ref", idnum |-> idnum, generation |-> generation, pdf |-> pdf]
\* the two placeholders a writer's object list can hold
None == [t |-> "None"]
NotInit(n) == [t |-> "NotInit", n |-> n]

IsRef(v) == v.t = "ref"
IsPtr(v) == v.t = "ptr"

\* An address: the document whose operation created the object, the
\* (generation, id) it was read for (<<0, 0>> for an object made by a writer)
\* and a serial number.
Addr(doc, gen, id, n) == [doc |-> doc, gen |-> gen, id |-> id, n |-> n]

\* A cell: a DictionaryObject ("dict"), StreamObject ("stream"), PageObject
\* ("page") or ArrayObject ("array").  items is the ordered list of
\* (key, value) pairs; an array's keys are its positions.
Cell(cls, items) == [cls |-> cls, items |-> items, indirectRef |-> None, data |-> None]

Item(k, v) == [k |-> k, v |-> v]

Keys(cell) == {cell.items[i].k : i \in 1..Len(cell.items)}

\* dict.__getitem__ without resolution (DictionaryObject.rawGet)
RawGet(cell, key) ==
    LET i == CHOOSE i \in 1..Len(cell.items) : cell.items[i].k = key
    IN  cell.items[i].v

\* The state an operation works on is st = [heap, readers, wr, warnings],
\* warnings being those issued since the operation began; its result is the
\* state it leaves, what it returned and the exception it raised.
SetR(st, r) == [st EXCEPT !.readers = Put(@, r.name, r)]

\* warnings.warn(...)
Warn(st, w) == [st EXCEPT !.warnings = @ \cup {w}]

Raise(st, e) == [st |-> st, ret |-> Null, exc |-> e]
Return(st, v) == [st |-> st, ret |-> v, exc |-> "none"]

-----------------------------------------------------------------------------
(* PdfFileReader: construction and the cross-reference walk                *)
(*                                                                         *)
(* A reader's `stream` is the file: startxref, the cross-reference         *)
(* sections by byte offset (`xref`) and the indirect objects by byte       *)
(* offset (`objs`).  A classic section is                                  *)
(*   [kind |-> "table", subsections |-> <<[start, rows]>>, trailer]        *)
(* with rows [offset, generation, state]; a cross-reference stream is      *)
(*   [kind |-> "xstream", idnum, generation, entries, dict]                *)
(* with entries [idnum, type, f1, f2] in /Index order.                     *)

\* pdfreader.py PdfFileReader.__init__, before _parse_pdf_file is called
NewReader(name, stream, strict) ==
    [name |-> name, stream |-> stream, strict |-> strict, closed |-> FALSE,
     xref_table |-> EmptyMap, xref_order |-> EmptyMap, xref_idx |-> 0,
     xref_stm |-> EmptyMap, cached_objs |-> EmptyMap, nread |-> EmptyMap,
     trailer |-> EmptyMap, override_encryption |-> FALSE,
     startxref |-> stream.startxref, pc |-> "walk", walked |-> <<>>,
     root |-> None, info |-> None, flattened |-> FALSE, flatten_pages |-> <<>>]

\* _parse_pdf_file._used_before
UsedBefore(r, num, generation) ==
    \/ (Has(r.xref_table, generation) /\ num \in DOMAIN r.xref_table[generation])
    \/ num \in DOMAIN r.xref_stm

\* _parse_pdf_file, one row of a classic table: an id already recorded under
\* the row's generation is kept, otherwise (offset, state == "f") is recorded
AddTableRow(r, currid, row) ==
    LET g == row.generation
        t1 == IF Has(r.xref_table, g) THEN r.xref_table ELSE Put(r.xref_table, g, EmptyMap)
        o1 == IF Has(r.xref_order, g) THEN r.xref_order ELSE Put(r.xref_order, g, <<>>)
    IN  IF Has(t1[g], currid)
        THEN [r EXCEPT !.xref_table = t1, !.xref_order = o1]
        ELSE [r EXCEPT !.xref_table = Put(t1, g, Put(t1[g], currid,
                                      [offset |-> row.offset, free |-> row.state = "f"])),
                       !.xref_order = Put(o1, g, Append(o1[g], currid))]

\* the rows of one subsection, from row i on
RECURSIVE ReadRows(_, _, _, _)
ReadRows(r, currid, rows, i) ==
    IF i > Len(rows) THEN Return(r, Null)
    ELSE IF rows[i].state \notin {"f", "n"} THEN Raise(r, "PdfReadError")
    ELSE ReadRows(AddTableRow(r, currid, rows[i]), currid + 1, rows, i + 1)

\* the subsections of one classic table, from subsection j on; the start id
\* of the first one, when not 0, becomes _xref_idx
RECURSIVE ReadSubsections(_, _, _)
ReadSubsections(r, subs, j) ==
    IF j > Len(subs) THEN Return(r, Null)
    ELSE LET r1 == IF j = 1 /\ subs[j].start # 0
                   THEN [r EXCEPT !.xref_idx = subs[j].start] ELSE r
             res == ReadRows(r1, subs[j].start, subs[j].rows, 1)
         IN  IF res.exc # "none" THEN res ELSE ReadSubsections(res.st, subs, j + 1)

\* a merge in which the section read later replaces the value
MergeTrailerLastWins(trailer, new_trailer) ==
    [k \in (DOMAIN trailer) \cup (DOMAIN new_trailer) |->
        IF k \in DOMAIN new_trailer THEN new_trailer[k] ELSE trailer[k]]

\* for key, value in new_trailer.items(): if key not in self._trailer: ...
MergeTrailer(trailer, new_trailer) ==
    [k \in (DOMAIN trailer) \cup (DOMAIN new_trailer) |->
        IF k \in DOMAIN trailer THEN trailer[k] ELSE new_trailer[k]]

\* _read_object_header at a byte offset: the (id, generation) written there
HasHeader(r, offset) == offset \in DOMAIN r.stream.objs

\* PdfFileReader._zero_xref
ZeroXref(r, generation) ==
    LET old == r.xref_table[generation]
        new == [i \in {k - r.xref_idx : k \in DOMAIN old} |-> old[i + r.xref_idx]]
    IN  [r EXCEPT !.xref_table = Put(r.xref_table, generation, new),
                  !.xref_order = Put(r.xref_order, generation,
                        [n \in 1..Len(r.xref_order[generation]) |->
                            r.xref_order[generation][n] - r.xref_idx])]

\* _parse_pdf_file, the check of one generation of a table that is not
\* zero-indexed: the ids are visited in insertion order; the first one whose
\* header cannot be read ends the visit, the first one whose header id is
\* this_id - _xref_idx renumbers the generation
RECURSIVE VerifyGeneration(_, _, _)
VerifyGeneration(r, gen, n) ==
    LET ids == r.xref_order[gen] IN
    IF n > Len(ids) THEN r
    ELSE LET this_id == ids[n]
             offset == r.xref_table[gen][this_id].offset
         IN  IF ~HasHeader(r, offset) THEN r
             ELSE IF r.stream.objs[offset].idnum = this_id - r.xref_idx
                  THEN ZeroXref(r, gen)
                  ELSE VerifyGeneration(r, gen, n + 1)

RECURSIVE VerifyGenerations(_, _)
VerifyGenerations(r, gens) ==
    IF gens = {} THEN r
    ELSE LET g == CHOOSE g \in gens : \A h \in gens : g <= h
         IN  VerifyGenerations(IF g = 65535 THEN r ELSE VerifyGeneration(r, g, 1),
                               gens \ {g})

\* the end of _parse_pdf_file (the zero-index check) and of __init__
\* (self._root = self._trailer.rawGet("/Root"), self._info likewise or None)
FinishParse(r) ==
    LET r1 == IF r.xref_idx # 0 /\ ~r.strict
              THEN VerifyGenerations(r, DOMAIN r.xref_table) ELSE r
    IN  IF Has(r1.trailer, "/Root")
        THEN [r1 EXCEPT !.pc = "ready", !.root = r1.trailer["/Root"],
                        !.info = IF Has(r1.trailer, "/Info") THEN r1.trailer["/Info"] ELSE None]
        ELSE [r1 EXCEPT !.pc = "raised"]

\* PdfFileReader._cache_indirectobj: an entry already present is an error in
\* strict mode and is overwritten (with a warning) otherwise
CacheIndirectObj(st, name, generation, idnum, obj) ==
    LET r == st.readers[name]
        st1 == IF Has(r.cached_objs, <<generation, idnum>>)
               THEN Warn(st, "Overwriting cache") ELSE st
    IN  IF Has(r.cached_objs, <<generation, idnum>>) /\ r.strict
        THEN Raise(st, "PdfReadError")
        ELSE Return(SetR(st1, [r EXCEPT !.cached_objs =
                                  Put(r.cached_objs, <<generation, idnum>>, obj)]), obj)

\* the address of the object the next read for (generation, idnum) creates
NextAddr(r, generation, idnum) ==
    Addr(r.name, generation, idnum,
         IF Has(r.nread, <<generation, idnum>>) THEN r.nread[<<generation, idnum>>] + 1
         ELSE 1)

CountRead(r, generation, idnum) ==
    [r EXCEPT !.nread = Put(r.nread, <<generation, idnum>>,
                            NextAddr(r, generation, idnum).n)]

\* _parse_pdf_file, one entry of a cross-reference stream (lines 740-767)
AddStreamEntry(r, e) ==
    IF e.type = 0
    THEN Return([r EXCEPT !.xref_stm = Put(r.xref_stm, e.idnum, <<0, e.f1, e.f2>>)], Null)
    ELSE IF e.type = 1
    THEN IF UsedBefore(r, e.idnum, e.f2) THEN Return(r, Null)
         ELSE Return([r EXCEPT !.xref_stm = Put(r.xref_stm, e.idnum, <<1, e.f1, e.f2>>)], Null)
    ELSE IF e.type = 2
    THEN IF UsedBefore(r, e.idnum, 0) THEN Return(r, Null)
         ELSE Return([r EXCEPT !.xref_stm = Put(r.xref_stm, e.idnum, <<2, e.f1, e.f2>>)], Null)
    ELSE IF r.strict THEN Raise(r, "PdfReadError") ELSE Return(r, Null)

RECURSIVE ReadStreamEntries(_, _, _)
ReadStreamEntries(r, entries, i) ==
    IF i > Len(entries) THEN Return(r, Null)
    ELSE LET res == AddStreamEntry(r, entries[i])
         IN  IF res.exc # "none" THEN res ELSE ReadStreamEntries(res.st, entries, i + 1)

\* for key in ("/Root", "/Encrypt", "/Info", "/ID", "/Prev"): ...
StreamTrailerKeys == {"/Root", "/Encrypt", "/Info", "/ID", "/Prev"}

MergeStreamTrailer(trailer, dict) ==
    MergeTrailer(trailer, [k \in (DOMAIN dict) \cap StreamTrailerKeys |-> dict[k]])

\* _parse_pdf_file, the branch for a classic table (lines 587-703); the
\* reader's pc stays "walk" when a link is followed
ReadClassicSection(st, name, sec) ==
    LET r == st.readers[name]
        res == ReadSubsections(r, sec.subsections, 1)
    IN  IF res.exc # "none" THEN Raise(SetR(st, res.st), res.exc)
        ELSE LET r1 == [res.st EXCEPT !.trailer = MergeTrailer(@, sec.trailer)]
             IN  IF Has(sec.trailer, "/XRefStm")
                 THEN Return(SetR(st, [r1 EXCEPT !.startxref = sec.trailer["/XRefStm"].v,
                                                 !.trailer = Del(@, "/XRefStm")]), Null)
                 ELSE IF Has(sec.trailer, "/Prev")
                 THEN Return(SetR(st, [r1 EXCEPT !.startxref = sec.trailer["/Prev"].v,
                                                 !.trailer = Del(@, "/Prev")]), Null)
                 ELSE Return(SetR(st, FinishParse(r1)), Null)

\* a reference read from a file belongs to the reader that read it
FixRef(v, name) == IF IsRef(v) THEN [v EXCEPT !.pdf = name] ELSE v

\* the items of a dictionary read from the file, in the order written
DictItems(dict, keys) ==
    [i \in 1..Len(keys) |-> Item(keys[i], dict[keys[i]])]

\* _parse_pdf_file, the branch for a cross-reference stream (lines 704-785)
ReadStreamSection(st, name, sec, xrefstm_offset) ==
    LET r == st.readers[name]
        a == NextAddr(r, sec.generation, sec.idnum)
        cell == Cell("stream", DictItems([k \in DOMAIN sec.dict |-> FixRef(sec.dict[k], name)],
                                         sec.keys))
        st1 == [SetR(st, CountRead(r, sec.generation, sec.idnum))
                   EXCEPT !.heap = Put(@, a, cell)]
    IN  IF ~Has(sec.dict, "/Type") THEN Raise(st, "KeyError")
        ELSE IF sec.dict["/Type"] # Name("/XRef") THEN Raise(st, "PdfReadError")
        ELSE LET c == CacheIndirectObj(st1, name, sec.generation, sec.idnum, Ptr(a))
             IN  IF c.exc # "none" THEN c
                 ELSE LET res == ReadStreamEntries(c.st.readers[name], sec.entries, 1)
                      IN  IF res.exc # "none" THEN Raise(SetR(c.st, res.st), res.exc)
                          ELSE LET r1 == res.st
                                   r2 == IF UsedBefore(r1, sec.idnum, sec.generation) THEN r1
                                         ELSE [r1 EXCEPT !.xref_stm =
                                                 Put(@, sec.idnum,
                                                     <<1, xrefstm_offset, sec.generation>>)]
                                   r3 == [r2 EXCEPT !.trailer = MergeStreamTrailer(@, sec.dict)]
                               IN  IF Has(r3.trailer, "/Prev")
                                   THEN Return(SetR(c.st, [r3 EXCEPT
                                                   !.startxref = r3.trailer["/Prev"].v,
                                                   !.trailer = Del(@, "/Prev")]), Null)
                                   ELSE Return(SetR(c.st, FinishParse(r3)), Null)

\* _parse_pdf_file, one turn of its `while True` loop: the section at
\* startxref is read and either a link is followed or the walk ends
ParseSection(st, name) ==
    LET r == st.readers[name]
        off == r.startxref
        st0 == SetR(st, [r EXCEPT !.walked = Append(@, off)])
    IN  IF off \notin DOMAIN r.stream.xref THEN Raise(st, "PdfReadError")
        ELSE IF r.stream.xref[off].kind = "table"
        THEN ReadClassicSection(st0, name, r.stream.xref[off])
        ELSE ReadStreamSection(st0, name, r.stream.xref[off], off)

-----------------------------------------------------------------------------
(* Resolution of references                                                *)

\* PdfFileReader.R_XTABLE, R_XSTREAM
R_XTABLE == 1
R_XSTREAM == 2

\* PdfFileWriter.get_object: self._objects[ido.idnum - 1], Python indexing
WriterGetObject(st, ido) ==
    LET n == Len(st.wr.objects)
        i == ido.idnum - 1
    IN  IF ido.pdf # "W" THEN Raise(st, "ValueError")
        ELSE IF i >= n \/ i < 0 - n THEN Raise(st, "IndexError")
        ELSE Return(st, st.wr.objects[(IF i < 0 THEN i + n ELSE i) + 1])

\* generic.py read_object at an object body (`tmpl`, what the file holds
\* there): a dictionary, array or stream is a new object, created for the
\* reference (generation, idnum), and so is an array written as the value
\* of one of its entries
ReadObject(st, name, tmpl, generation, idnum) ==
    LET r == st.readers[name] IN
    IF tmpl.t = "bad" THEN Raise(st, "PdfStreamError")
    ELSE IF tmpl.t = "cell"
    THEN LET a == NextAddr(r, generation, idnum)
             sub(i) == Addr(name, generation, idnum, 100 * a.n + i)
             arrs == {i \in 1..Len(tmpl.items) : tmpl.items[i].v.t = "arr"}
             cell == [cls |-> tmpl.cls,
                      items |-> [i \in 1..Len(tmpl.items) |->
                                    Item(tmpl.items[i].k,
                                         IF i \in arrs THEN Ptr(sub(i))
                                         ELSE FixRef(tmpl.items[i].v, name))],
                      indirectRef |-> None, data |-> tmpl.data]
             arr(i) == Cell("array", [j \in 1..Len(tmpl.items[i].v.items) |->
                                         Item("", FixRef(tmpl.items[i].v.items[j], name))])
         IN  Return([SetR(st, CountRead(r, generation, idnum))
                        EXCEPT !.heap = [x \in DOMAIN st.heap \cup {a} \cup {sub(i) : i \in arrs} |->
                                            IF x = a THEN cell
                                            ELSE IF \E i \in arrs : x = sub(i)
                                            THEN arr(CHOOSE i \in arrs : x = sub(i))
                                            ELSE st.heap[x]]], Ptr(a))
    ELSE Return(st, FixRef(tmpl, name))

\* a read that does not compare the header with the reference
ReadAtUnchecked(st, name, ref, offset, is_xtable) ==
    IF st.readers[name].closed \/ ~HasHeader(st.readers[name], offset)
    THEN Raise(st, "ValueError")
    ELSE ReadObject(st, name, st.readers[name].stream.objs[offset].body,
                    ref.generation, ref.idnum)

\* PdfFileReader._get_object_by_ref, from `self._stream.seek(offset, 0)` on
\* (lines 328-362)
ReadAt(st, name, ref, offset, is_xtable) ==
    LET r == st.readers[name] IN
    IF r.closed THEN Raise(st, "ValueError")
    ELSE IF ~HasHeader(r, offset) THEN Raise(st, "ValueError")
    ELSE LET o == r.stream.objs[offset]
         IN  IF is_xtable /\ r.xref_idx # 0 /\ o.idnum # ref.idnum /\ r.strict
             THEN Raise(st, "PdfReadError")
             ELSE IF ~(is_xtable /\ r.xref_idx # 0 /\ o.idnum # ref.idnum)
                     /\ r.strict
                     /\ (o.idnum # ref.idnum \/ o.generation # ref.generation)
             THEN Raise(st, "PdfReadError")
             ELSE ReadObject(st, name, o.body, ref.generation, ref.idnum)

\* _get_object_by_ref on a free entry (lines 291-297 and 304-311)
FreeEntryAlwaysNull(st, r) == Return(Warn(st, "fetching a free object"), Null)

FreeEntry(st, r) ==
    IF r.strict THEN Raise(st, "PdfReadError")
    ELSE Return(Warn(st, "fetching a free object"), Null)

\* PdfFileReader.get_object, the choice of the index (lines 490-504): the
\* stream index is asked first, by id alone; 0 when the id is in neither
SourceTableFirst(r, ref) ==
    IF Has(r.xref_table, ref.generation)
       /\ ref.idnum \in DOMAIN r.xref_table[ref.generation]
    THEN R_XTABLE
    ELSE IF ref.idnum \in DOMAIN r.xref_stm THEN R_XSTREAM
    ELSE 0

Source(r, ref) ==
    IF ref.idnum \in DOMAIN r.xref_stm THEN R_XSTREAM
    ELSE IF Has(r.xref_table, ref.generation)
            /\ ref.idnum \in DOMAIN r.xref_table[ref.generation]
    THEN R_XTABLE
    ELSE 0

\* PdfFileReader.get_object: (ref.generation, ref.idnum) in self._cached_objs
CacheHitNever(r, ref) == FALSE

CacheHit(r, ref) == Has(r.cached_objs, <<ref.generation, ref.idnum>>)

\* PdfFileReader.get_object, after _get_object_by_ref returned `res`:
\* return self._cache_indirectobj(generation, idnum, retval)
CacheResult(name, ref, res) ==
    IF res.exc # "none" THEN res
    ELSE LET c == CacheIndirectObj(res.st, name, ref.generation, ref.idnum, res.ret)
         IN  IF c.exc # "none" THEN c ELSE Return(c.st, res.ret)

\* _get_compressed_object_from_xrefstream, the matching header pair found at
\* `index`, `first` being the result of obj_stm["/First"] (lines 404-431)
ReadSubObjectAtLocalId(name, ref, cell, index, first) ==
    LET pos == first.ret.v
                 + cell.data.pairs[first.st.readers[name].xref_stm[ref.idnum][3] + 1].offset
    IN  ReadObject(first.st, name, cell.data.content[pos], ref.generation, ref.idnum)

ReadSubObject(name, ref, cell, index, first) ==
    IF first.exc # "none" THEN first
    ELSE LET r == first.st.readers[name]
             pos == first.ret.v + cell.data.pairs[index + 1].offset
             tmpl == IF pos \in DOMAIN cell.data.content
                     THEN cell.data.content[pos] ELSE [t |-> "bad"]
             res == ReadObject(first.st, name, tmpl, ref.generation, ref.idnum)
         IN  IF res.exc = "PdfStreamError"
             THEN IF r.strict THEN Raise(Warn(first.st, "Invalid stream"), "PdfReadError")
                  ELSE Return(Warn(first.st, "Invalid stream"), Null)
             ELSE res

RECURSIVE GetObject(_, _, _, _)
RECURSIVE GetObjectByRef(_, _, _, _, _)
RECURSIVE GetCompressedObjectFromXrefstream(_, _, _, _)
RECURSIVE OpenObjStm(_, _, _, _)
RECURSIVE CheckObjStm(_, _, _, _, _)
RECURSIVE ScanObjStm(_, _, _, _, _, _)
RECURSIVE ResolveRef(_, _, _)
\* a resolution that takes what the document returned as it is
ResolvedOnce(res, d) == res

RECURSIVE Resolved(_, _)
RECURSIVE GetItem(_, _, _, _)

\* <document>.getObject(ref): the reader's or the writer's get_object
DocGetObject(st, ref, d) ==
    IF ref.pdf = "W" THEN WriterGetObject(st, ref)
    ELSE GetObject(st, ref.pdf, ref, d)

\* IndirectObject.getObject: self.pdf.getObject(self).getObject()
ResolveRef(st, ref, d) ==
    IF d > MaxDepth THEN Raise(st, "RecursionError")
    ELSE Resolved(DocGetObject(st, ref, d + 1), d)

\* the trailing .getObject() of IndirectObject.getObject, on what the
\* document returned
Resolved(res, d) ==
    IF res.exc # "none" THEN res
    ELSE IF res.ret.t \in {"None", "NotInit"} THEN Raise(res.st, "AttributeError")
    ELSE IF IsRef(res.ret) THEN ResolveRef(res.st, res.ret, d + 1)
    ELSE res

\* DictionaryObject.__getitem__: dict.__getitem__(self, key).getObject()
GetItem(st, cell, key, d) ==
    IF key \notin Keys(cell) THEN Raise(st, "KeyError")
    ELSE IF IsRef(RawGet(cell, key)) THEN ResolveRef(st, RawGet(cell, key), d)
    ELSE Return(st, RawGet(cell, key))

\* PdfFileReader.get_object
GetObject(st, name, ref, d) ==
    LET r == st.readers[name]
        key == <<ref.generation, ref.idnum>>
    IN  IF d > MaxDepth THEN Raise(st, "RecursionError")
        ELSE IF CacheHit(r, ref) THEN Return(st, r.cached_objs[key])
        ELSE IF Source(r, ref) = 0
        THEN Raise(Warn(st, "not defined"), "PdfReadError")
        ELSE CacheResult(name, ref, GetObjectByRef(st, name, ref, Source(r, ref), d))

\* PdfFileReader._get_object_by_ref (lines 276-326)
GetObjectByRef(st, name, ref, source, d) ==
    LET r == st.readers[name] IN
    IF source = R_XTABLE
    THEN LET e == r.xref_table[ref.generation][ref.idnum]
         IN  IF e.free
             THEN FreeEntry(st, r)
             ELSE ReadAt(st, name, ref, e.offset, TRUE)
    ELSE IF source = R_XSTREAM
    THEN LET e == r.xref_stm[ref.idnum]
         IN  IF e[1] = 0
             THEN FreeEntry(st, r)
             ELSE IF e[1] = 1
             THEN IF e[3] # ref.generation THEN Raise(st, "ValueError")
                  ELSE ReadAt(st, name, ref, e[2], FALSE)
             ELSE IF e[1] = 2
             THEN GetCompressedObjectFromXrefstream(st, name, ref, d)
             ELSE Return(st, Null)
    ELSE Raise(st, "ValueError")

\* PdfFileReader._get_compressed_object_from_xrefstream (lines 364-376): the
\* container is IndirectObject(obj_stmid, 0, self).getObject()
GetCompressedObjectFromXrefstream(st, name, ref, d) ==
    LET e == st.readers[name].xref_stm[ref.idnum]
    IN  IF e[1] # 2 THEN Raise(st, "PdfReadError")
        ELSE OpenObjStm(name, ref, d, ResolveRef(st, IndirectObject(e[2], 0, name), d + 1))

\* ... `os` being the container (lines 377-381): obj_stm["/Type"]
OpenObjStm(name, ref, d, os) ==
    IF os.exc # "none" THEN os
    ELSE IF ~IsPtr(os.ret) THEN Raise(os.st, "TypeError")
    ELSE CheckObjStm(name, ref, d, os.st.heap[os.ret.a],
                     GetItem(os.st, os.st.heap[os.ret.a], "/Type", d))

\* ... `ty` being its /Type (lines 381-393); the /N of a container is a
\* direct number
CheckObjStm(name, ref, d, cell, ty) ==
    IF ty.exc # "none" THEN ty
    ELSE IF ty.ret # Name("/ObjStm") THEN Raise(ty.st, "PdfReadError")
    ELSE IF "/N" \notin Keys(cell) THEN Raise(ty.st, "KeyError")
    ELSE IF ty.st.readers[name].xref_stm[ref.idnum][3] >= RawGet(cell, "/N").v
    THEN Raise(ty.st, "PdfStreamError")
    ELSE IF cell.cls # "stream" THEN Raise(ty.st, "AttributeError")
    ELSE ScanObjStm(ty.st, name, ref, cell, 0, d)

\* ... the loop over the header pairs (lines 394-437), from pair `index`
\* (0-based) on
ScanObjStm(st, name, ref, cell, index, d) ==
    LET r == st.readers[name]
        local_id == r.xref_stm[ref.idnum][3]
        pairs == cell.data.pairs
    IN  IF index >= RawGet(cell, "/N").v
        THEN IF r.strict THEN Raise(st, "PdfReadError") ELSE Return(st, Null)
        ELSE IF index + 1 > Len(pairs) THEN Raise(st, "ValueError")
        ELSE IF pairs[index + 1].objnum # ref.idnum
        THEN ScanObjStm(st, name, ref, cell, index + 1, d)
        ELSE IF r.strict /\ local_id # index THEN Raise(st, "PdfReadError")
        ELSE ReadSubObject(name, ref, cell, index, GetItem(st, cell, "/First", d))

-----------------------------------------------------------------------------
(* PdfFileWriter: the object list and cloning                              *)

Str(s) == [t |-> "str", s |-> s]

\* a new object made by the writer's code: its address and the state with it
NewAddr(st) == Addr("W", 0, 0, st.wr.nalloc + 1)

Alloc(st, cell) ==
    [st EXCEPT !.heap = Put(@, NewAddr(st), cell), !.wr.nalloc = @ + 1]

\* an object list that leaves an id unused before every object it takes
AddObjectSkippingId(st, obj) == [st EXCEPT !.wr.objects = Append(Append(@, Null), obj)]

\* PdfFileWriter._add_object: the state, and the reference it returns
AddObject(st, obj) == [st EXCEPT !.wr.objects = Append(@, obj)]

AddedRef(st) == IndirectObject(Len(st.wr.objects), 0, "W")

\* a writer before its constructor has run; clones records, for every call
\* of IndirectObject.clone since the translation table was last emptied,
\* the reference cloned and the reference returned
NoWriter ==
    [objects |-> <<>>, id_translated |-> EmptyMap, stack |-> <<>>,
     extern_map |-> EmptyMap, encrypt |-> None, id |-> None,
     root |-> None, pages |-> None, info |-> None, nalloc |-> 0, out |-> <<>>,
     clones |-> {}]

\* PdfFileWriter.__init__ without a source document: the page tree root,
\* the information dictionary and the catalog are objects 1, 2 and 3
PdfFileWriterInit(st) ==
    LET st0 == [st EXCEPT !.wr = NoWriter]
        st1 == Alloc(st0, Cell("array", <<>>))
        st2 == Alloc(st1, Cell("dict", <<Item("/Type", Name("/Pages")),
                                         Item("/Count", Num(0)),
                                         Item("/Kids", Ptr(NewAddr(st0)))>>))
        st3 == AddObject(st2, Ptr(NewAddr(st1)))
        st4 == Alloc(st3, Cell("dict", <<Item("/Producer", Str("pypdf"))>>))
        st5 == AddObject(st4, Ptr(NewAddr(st3)))
        st6 == Alloc(st5, Cell("dict", <<Item("/Type", Name("/Catalog")),
                                         Item("/Pages", AddedRef(st3))>>))
        st7 == AddObject(st6, Ptr(NewAddr(st5)))
    IN  [st7 EXCEPT !.wr.pages = AddedRef(st3),
                    !.wr.info = AddedRef(st5),
                    !.wr.root = AddedRef(st7)]

RECURSIVE CloneValue(_, _, _)
RECURSIVE CloneRef(_, _, _)
RECURSIVE CloneResolved(_, _, _)
RECURSIVE CloneCell(_, _, _)
RECURSIVE CloneItems(_, _, _, _, _, _)
RECURSIVE CloneItemsNext(_, _, _, _, _, _)

\* <value>.clone(pdf_dest), the destination being the writer: 'clone' in
\* dir(value) is false for the placeholders of an object list
CloneValue(st, v, d) ==
    IF d > MaxDepth THEN Raise(st, "RecursionError")
    ELSE IF IsRef(v) THEN CloneRef(st, v, d)
    ELSE IF IsPtr(v) THEN CloneCell(st, v.a, d)
    ELSE Return(st, v)

\* IndirectObject.clone, the object list entry `n` being filled with the
\* clone `res` (pdf_dest._objects[n__-1] = ...)
CloneStore(n, res) ==
    IF res.exc # "none" THEN res
    ELSE Return([res.st EXCEPT !.wr.objects[n] = res.ret], IndirectObject(n, 0, "W"))

\* a key that tells the source objects apart: the id number, the generation
\* and the document, as one number
TranslationKeyOfReference(ref) ==
    ref.idnum + 10 * ref.generation + (IF ref.pdf = "R1" THEN 0 ELSE 100)

\* the key of the translation table: pdf_dest._id_translated[self.idnum]
TranslationKey(ref) == ref.idnum

Cloned(st, ref, ret) == [st EXCEPT !.wr.clones = @ \cup {[src |-> ref, dst |-> ret]}]

\* IndirectObject.clone recording the translation only by the time the clone
\* is stored
CloneRefRecordedLate(st, ref, d) ==
    IF Has(st.wr.id_translated, TranslationKey(ref))
    THEN Return(Cloned(st, ref, IndirectObject(st.wr.id_translated[TranslationKey(ref)], 0, "W")),
                IndirectObject(st.wr.id_translated[TranslationKey(ref)], 0, "W"))
    ELSE CloneResolved(Len(st.wr.objects) + 1, d,
            ResolveRef([Cloned(st, ref, IndirectObject(Len(st.wr.objects) + 1, 0, "W"))
                           EXCEPT !.wr.objects = Append(@, NotInit(Len(st.wr.objects) + 1))],
                       ref, d + 1))

\* IndirectObject.clone: the translation table is asked for self.idnum; a
\* miss records the next id, appends the "%d NotInit" placeholder and clones
\* self.getObject() (asked twice by the code, with the same answer)
CloneRef(st, ref, d) ==
    IF Has(st.wr.id_translated, TranslationKey(ref))
    THEN Return(Cloned(st, ref, IndirectObject(st.wr.id_translated[TranslationKey(ref)], 0, "W")),
                IndirectObject(st.wr.id_translated[TranslationKey(ref)], 0, "W"))
    ELSE CloneResolved(Len(st.wr.objects) + 1, d,
            ResolveRef([Cloned(st, ref, IndirectObject(Len(st.wr.objects) + 1, 0, "W"))
                           EXCEPT !.wr.id_translated =
                                      Put(@, TranslationKey(ref), Len(st.wr.objects) + 1),
                                  !.wr.objects = Append(@, NotInit(Len(st.wr.objects) + 1))],
                       ref, d + 1))

CloneResolved(n, d, res) ==
    IF res.exc # "none" THEN res
    ELSE CloneStore(n, CloneValue(res.st, res.ret, d + 1))

\* DictionaryObject._clone / ArrayObject.clone: the source's entries in
\* order, from entry i on; acc are the entries of the clone so far
CloneItems(st, items, i, acc, ignore_fields, d) ==
    IF i > Len(items) THEN Return(st, acc)
    ELSE IF items[i].k \in ignore_fields
    THEN CloneItems(st, items, i + 1, acc, ignore_fields, d)
    ELSE CloneItemsNext(items, i, acc, ignore_fields, d,
                        CloneValue(st, items[i].v, d + 1))

CloneItemsNext(items, i, acc, ignore_fields, d, res) ==
    IF res.exc # "none" THEN res
    ELSE CloneItems(res.st, items, i + 1, Append(acc, Item(items[i].k, res.ret)),
                    ignore_fields, d)

\* the new object d__ = self.__class__() of address a receives its entries
CloneFill(a, res) ==
    IF res.exc # "none" THEN res
    ELSE Return([res.st EXCEPT !.heap[a].items = res.ret], Ptr(a))

\* DictionaryObject.clone, StreamObject.clone (which shares _data),
\* PageObject.clone (without /Parent and indirectRef) and ArrayObject.clone
CloneCell(st, a, d) ==
    LET src == st.heap[a]
    IN  CloneFill(NewAddr(st),
            CloneItems(Alloc(st, [cls |-> src.cls, items |-> <<>>,
                                  indirectRef |-> None, data |-> src.data]),
                       src.items, 1, <<>>,
                       IF src.cls = "page" THEN {"/Parent"} ELSE {}, d))

\* PdfFileWriter.reset_cloning
ResetCloning(st) == [st EXCEPT !.wr.id_translated = EmptyMap, !.wr.clones = {}]

-----------------------------------------------------------------------------
(* PdfFileWriter._sweepIndirectReferences                                  *)

\* extern_map.get(data.pdf, {}).get(data.generation, {}).get(data.idnum, None)
ExternGet(extern_map, data) ==
    IF ~Has(extern_map, data.pdf) THEN None
    ELSE IF ~Has(extern_map[data.pdf], data.generation) THEN None
    ELSE IF ~Has(extern_map[data.pdf][data.generation], data.idnum) THEN None
    ELSE extern_map[data.pdf][data.generation][data.idnum]

\* extern_map[data.pdf][data.generation][data.idnum] = ido, the two outer
\* levels being created when missing (write, lines 764-769)
ExternPut(extern_map, data, ido) ==
    LET m1 == IF Has(extern_map, data.pdf) THEN extern_map[data.pdf] ELSE EmptyMap
        m2 == IF Has(m1, data.generation) THEN m1[data.generation] ELSE EmptyMap
    IN  Put(extern_map, data.pdf, Put(m1, data.generation, Put(m2, data.idnum, ido)))

\* the exceptions of `except (ValueError, PyPdfError)`
SweepCaught == {"ValueError", "PdfReadError", "PdfStreamError"}

\* what the sweep returned for the foreign reference `data`
Swept(st, data, ret) == [st EXCEPT !.swept = @ \cup {[data |-> data, ret |-> ret]}]

\* the handler of the try block: a warning and NullObject()
SweepExcept(data, res) ==
    IF res.exc \in SweepCaught
    THEN Return(Swept(Warn(res.st, "Unable to resolve"), data, Null), Null)
    ELSE res

\* data[key] = value and nothing more
SweepAssignInline(st, a, i, value) == [st EXCEPT !.heap[a].items[i].v = value]

\* data[key] = value, a StreamObject value being added to the object list
\* first and replaced by its reference
SweepAssign(st, a, i, value) ==
    IF IsPtr(value) /\ st.heap[value.a].cls = "stream"
    THEN [AddObject(st, value) EXCEPT !.heap[a].items[i].v = AddedRef(AddObject(st, value))]
    ELSE [st EXCEPT !.heap[a].items[i].v = value]

\* lines 889-898 with the indentation the file has: only a generation that
\* has no map yet is given one, and only then is the object registered,
\* swept, stored in its placeholder and its new reference returned;
\* otherwise line 907 returns the object that was fetched
SweepRegister(st, data) ==
    LET ido == IndirectObject(Len(st.wr.objects), 0, "W")
        m1 == IF Has(st.wr.extern_map, data.pdf) THEN st.wr.extern_map[data.pdf] ELSE EmptyMap
    IN  [st EXCEPT !.wr.extern_map =
                      Put(@, data.pdf, Put(m1, data.generation, Put(EmptyMap, data.idnum, ido)))]

SkipsRegistration(st, data) ==
    /\ Has(st.wr.extern_map, data.pdf)
    /\ Has(st.wr.extern_map[data.pdf], data.generation)

RECURSIVE SweepIndirectReferences(_, _, _)
RECURSIVE SweepItems(_, _, _, _)
RECURSIVE SweepItemsNext(_, _, _, _)
RECURSIVE SweepOwn(_, _, _)
RECURSIVE SweepForeign(_, _, _)
RECURSIVE SweepStore(_, _, _)

\* the entries of the dictionary or array at a, from entry i on
SweepItems(st, a, i, d) ==
    IF i > Len(st.heap[a].items) THEN Return(st, Ptr(a))
    ELSE SweepItemsNext(a, i, d,
             SweepIndirectReferences(st, st.heap[a].items[i].v, d + 1))

SweepItemsNext(a, i, d, res) ==
    IF res.exc # "none" THEN res
    ELSE SweepItems(SweepAssign(res.st, a, i, res.ret), a, i + 1, d)

\* a reference of the writer (lines 871-877), after self.getObject(data):
\* what the sweep of the object returns is dropped
SweepOwnDone(data, res) ==
    IF res.exc # "none" THEN res ELSE Return(res.st, data)

SweepOwn(data, d, res) ==
    IF res.exc # "none" THEN res
    ELSE SweepOwnDone(data, SweepIndirectReferences(res.st, res.ret, d + 1))

\* a foreign reference that the map does not hold (lines 883-907), after
\* data.pdf.getObject(data)
SweepForeign(data, d, res) ==
    IF res.exc # "none" THEN SweepExcept(data, res)
    ELSE IF SkipsRegistration(AddObject(res.st, None), data)
    THEN Return(Swept(AddObject(res.st, None), data, res.ret), res.ret)
    ELSE SweepStore(data, Len(res.st.wr.objects) + 1,
             SweepIndirectReferences(SweepRegister(AddObject(res.st, None), data),
                                     res.ret, d + 1))

SweepStore(data, idnum, res) ==
    IF res.exc # "none" THEN SweepExcept(data, res)
    ELSE Return(Swept([res.st EXCEPT !.wr.objects[idnum] = res.ret],
                      data, IndirectObject(idnum, 0, "W")),
                IndirectObject(idnum, 0, "W"))

SweepIndirectReferences(st, data, d) ==
    IF d > MaxDepth THEN Raise(st, "RecursionError")
    ELSE IF IsPtr(data) THEN SweepItems(st, data.a, 1, d)
    ELSE IF ~IsRef(data) THEN Return(st, data)
    ELSE IF data.pdf = "W"
    THEN IF \E k \in 1..Len(st.wr.stack) : st.wr.stack[k] = data.idnum
         THEN Return(st, data)
         ELSE SweepOwn(data, d,
                  WriterGetObject([st EXCEPT !.wr.stack = Append(@, data.idnum)], data))
    ELSE IF st.readers[data.pdf].closed THEN Raise(st, "ValueError")
    ELSE IF ExternGet(st.wr.extern_map, data).t # "None"
    THEN Return(Swept(st, data, data), data)
    ELSE SweepForeign(data, d, DocGetObject(st, data, d + 1))

-----------------------------------------------------------------------------
(* Pages                                                                   *)

\* data[key] = value on the dictionary at a
SetItem(st, a, key, value) ==
    LET items == st.heap[a].items IN
    IF \E i \in 1..Len(items) : items[i].k = key
    THEN [st EXCEPT !.heap[a].items =
                       [i \in 1..Len(items) |->
                           IF items[i].k = key THEN Item(key, value) ELSE items[i]]]
    ELSE [st EXCEPT !.heap[a].items = Append(@, Item(key, value))]

\* PdfFileReader._flatten at a /Page: a PageObject that remembers the
\* reference it was reached by and holds the entries of the page
\* dictionary (none of the inheritable attributes is set on a /Pages node
\* of the documents below)
FlattenPage(st, name, page, indirect_ref) ==
    LET r == st.readers[name]
        a == Addr(name, 0 - 1, indirect_ref.idnum, Len(r.flatten_pages) + 1)
    IN  Return([SetR(st, [r EXCEPT !.flatten_pages = Append(@, Ptr(a))])
                   EXCEPT !.heap = Put(@, a, [cls |-> "page", items |-> st.heap[page.a].items,
                                              indirectRef |-> indirect_ref, data |-> None])],
               Null)

RECURSIVE Flatten(_, _, _, _, _)
RECURSIVE FlattenKids(_, _, _, _, _)
RECURSIVE FlattenKid(_, _, _, _)
RECURSIVE FlattenNext(_, _, _, _, _)

\* _flatten(pages, inherit, indirect_ref)
Flatten(st, name, pages, indirect_ref, d) ==
    IF d > MaxDepth THEN Raise(st, "RecursionError")
    ELSE IF ~IsPtr(pages) THEN Raise(st, "PdfReadError")
    ELSE IF "/Type" \notin Keys(st.heap[pages.a]) THEN Raise(st, "PdfReadError")
    ELSE IF RawGet(st.heap[pages.a], "/Type") = Name("/Pages")
    THEN IF "/Kids" \notin Keys(st.heap[pages.a]) THEN Raise(st, "KeyError")
         ELSE FlattenKids(st, name, RawGet(st.heap[pages.a], "/Kids"), 1, d)
    ELSE IF RawGet(st.heap[pages.a], "/Type") = Name("/Page")
    THEN IF indirect_ref.t = "None" THEN Raise(st, "AttributeError")
         ELSE FlattenPage(st, name, pages, indirect_ref)
    ELSE Raise(st, "PdfReadError")

\* for page in pages["/Kids"], from kid i on
FlattenKids(st, name, kids, i, d) ==
    IF i > Len(st.heap[kids.a].items) THEN Return(st, Null)
    ELSE FlattenNext(name, kids, i, d,
             IF IsRef(st.heap[kids.a].items[i].v)
             THEN FlattenKid(name, st.heap[kids.a].items[i].v, d,
                             ResolveRef(st, st.heap[kids.a].items[i].v, d + 1))
             ELSE Flatten(st, name, st.heap[kids.a].items[i].v, None, d + 1))

FlattenKid(name, kid, d, res) ==
    IF res.exc # "none" THEN res
    ELSE Flatten(res.st, name, res.ret, kid, d + 1)

FlattenNext(name, kids, i, d, res) ==
    IF res.exc # "none" THEN res
    ELSE FlattenKids(res.st, name, kids, i + 1, d)

\* self.root_object["/Pages"].getObject(), the start of _flatten()
FlattenRoot(name, res) ==
    IF res.exc # "none" THEN res
    ELSE IF ~IsPtr(res.ret) THEN Raise(res.st, "TypeError")
    ELSE FlattenKid(name, None, 0, GetItem(res.st, res.st.heap[res.ret.a], "/Pages", 0))

\* PdfFileReader.get_page(page_number): the pages are flattened on the
\* first call
GetPage(st, name, page_number) ==
    LET r == st.readers[name]
        res == IF ~r.flattened
               THEN FlattenRoot(name,
                        ResolveRef(SetR(st, [r EXCEPT !.flattened = TRUE]),
                                   FixRef(r.root, name), 0))
               ELSE Return(st, Null)
        pages == res.st.readers[name].flatten_pages
    IN  IF res.exc # "none" THEN res
        ELSE IF page_number >= Len(pages) THEN Raise(res.st, "IndexError")
        ELSE Return(res.st, pages[page_number + 1])

\* PdfFileWriter._insert_page for a page added after the last one
\* (add_page), in a page tree whose pages are the /Kids of self._pages
InsertPageLast(st, page) ==
    LET pp_ == st.wr.pages
        pages == st.wr.objects[pp_.idnum]
        kids == RawGet(st.heap[pages.a], "/Kids")
        count == RawGet(st.heap[pages.a], "/Count")
        st1 == SetItem(st, st.wr.objects[page.idnum].a, "/Parent", pp_)
        st2 == [st1 EXCEPT !.heap[kids.a].items = Append(@, Item("", page))]
    IN  Return(SetItem(st2, pages.a, "/Count", Num(count.v + 1)), page)

\* _insert_page, lines 196-202: a page object is added to the object list,
\* a reference to a page of another document is cloned
InsertPage(st, page) ==
    IF IsPtr(page)
    THEN IF RawGet(st.heap[page.a], "/Type") # Name("/Page") THEN Raise(st, "AssertionError")
         ELSE InsertPageLast(AddObject(st, page), AddedRef(AddObject(st, page)))
    ELSE LET got == ResolveRef(st, page, 0)
             cl == IF page.pdf = "W" THEN Return(got.st, page) ELSE CloneRef(got.st, page, 0)
         IN  IF got.exc # "none" THEN got
             ELSE IF ~IsPtr(got.ret) THEN Raise(got.st, "TypeError")
             ELSE IF "/Type" \notin Keys(got.st.heap[got.ret.a]) THEN Raise(got.st, "KeyError")
             ELSE IF RawGet(got.st.heap[got.ret.a], "/Type") # Name("/Page")
             THEN Raise(got.st, "AssertionError")
             ELSE IF cl.exc # "none" THEN cl
             ELSE IF ~IsPtr(cl.st.wr.objects[cl.ret.idnum]) THEN Raise(cl.st, "TypeError")
             ELSE InsertPageLast(cl.st, cl.ret)

-----------------------------------------------------------------------------
(* PdfFileWriter.clone, encrypt and write                                  *)

\* the entries of the reader's trailer, in the order the documents below
\* write them
TrailerItems(r) ==
    LET keys == SelectSeq(<<"/Size", "/Root", "/Info">>, LAMBDA k : Has(r.trailer, k))
    IN  [i \in 1..Len(keys) |-> Item(keys[i], FixRef(r.trailer[keys[i]], r.name))]

\* get_outlines_root() on a catalog without /Outlines: a TreeObject is added
\* to the object list and referenced by the catalog
GetOutlinesRoot(st) ==
    LET st1 == AddObject(Alloc(st, Cell("dict", <<Item("/Type", Name("/Outlines"))>>)),
                         Ptr(NewAddr(st)))
    IN  SetItem(st1, st.wr.objects[st.wr.root.idnum].a, "/Outlines", AddedRef(st1))

\* lines 165-167 of PdfFileWriter.clone: the trailer copy tr_ is in the
\* object list st1; _root, _pages and _info are read from it
WriterCloneSet(r, st1, tr_) ==
    [st1 EXCEPT !.wr.root = RawGet(st1.heap[tr_.a], "/Root"),
                !.wr.pages = RawGet(st1.heap[st1.wr.objects[RawGet(st1.heap[tr_.a], "/Root").idnum].a],
                                    "/Pages"),
                !.wr.info = IF r.info.t # "None" THEN RawGet(st1.heap[tr_.a], "/Info") ELSE None]

\* lines 164-176: the trailer copy is added to the object list, and
\* get_outlines_root() ends the call
WriterCloneDone(r, tr_) ==
    IF tr_.exc # "none" THEN tr_
    ELSE Return(GetOutlinesRoot(WriterCloneSet(r, AddObject(tr_.st, tr_.ret), tr_.ret)), Null)

\* line 163: pdf_source._trailer.clone(self), after the clone of the page
\* tree, whose result is dropped
WriterCloneTrailer(r, first) ==
    IF first.exc # "none" THEN first
    ELSE WriterCloneDone(r, CloneFill(NewAddr(first.st),
                                CloneItems(Alloc(first.st, Cell("dict", <<>>)),
                                           TrailerItems(r), 1, <<>>, {}, 0)))

\* line 162: pdf_source._trailer["/Root"]["/Pages"].clone(self)
WriterClonePages(r, pages) ==
    IF pages.exc # "none" THEN pages
    ELSE WriterCloneTrailer(r, CloneValue(pages.st, pages.ret, 0))

WriterCloneRoot(r, root) ==
    IF root.exc # "none" THEN root
    ELSE IF ~IsPtr(root.ret) THEN Raise(root.st, "TypeError")
    ELSE WriterClonePages(r, GetItem(root.st, root.st.heap[root.ret.a], "/Pages", 0))

\* PdfFileWriter.clone(pdf_source), pdf_source being a reader: the object
\* list and the translation table are emptied first (lines 159-160)
WriterClone(st, name) ==
    WriterCloneRoot(st.readers[name],
        ResolveRef([st EXCEPT !.wr.objects = <<>>, !.wr.id_translated = EmptyMap,
                              !.wr.clones = {}],
                   FixRef(st.readers[name].trailer["/Root"], name), 0))

Bytes(n) == [t |-> "bytes", n |-> n]

\* PdfFileWriter.encrypt with its default arguments
Encrypt(st) ==
    LET st1 == Alloc(st, Cell("array", <<Item("", Bytes(16)), Item("", Bytes(16))>>))
        st2 == Alloc(st1, Cell("dict", <<Item("/Filter", Name("/Standard")),
                                         Item("/V", Num(2)), Item("/Length", Num(128)),
                                         Item("/R", Num(3)), Item("/O", Bytes(32)),
                                         Item("/U", Bytes(32)), Item("/P", Num(0 - 4))>>))
        st3 == AddObject(st2, Ptr(NewAddr(st1)))
    IN  [st3 EXCEPT !.wr.id = Ptr(NewAddr(st)), !.wr.encrypt = AddedRef(st3)]

\* the number of characters of repr(n)
RECURSIVE Digits(_)
Digits(n) == IF n < 0 THEN 1 + Digits(0 - n) ELSE IF n < 10 THEN 1 ELSE 1 + Digits(n \div 10)

RECURSIVE WriteToStream(_, _, _, _)
RECURSIVE WriteItems(_, _, _, _, _)

\* the number of bytes <value>.writeToStream(stream, encryption_key) writes;
\* encrypted is whether a key is given
WriteToStream(st, v, encrypted, d) ==
    IF d > MaxDepth THEN 0
    ELSE IF v.t = "null" THEN 4
    ELSE IF v.t = "num" THEN Digits(v.v)
    ELSE IF v.t = "name" THEN Len(v.s)
    ELSE IF v.t = "str" THEN IF encrypted THEN 2 * Len(v.s) + 2 ELSE Len(v.s) + 2
    ELSE IF v.t = "bytes" THEN 2 * v.n + 2
    ELSE IF v.t = "ref" THEN Digits(v.idnum) + 1 + Digits(v.generation) + 2
    ELSE IF v.t # "ptr" THEN 0
    ELSE IF st.heap[v.a].cls = "array" THEN 1 + WriteItems(st, st.heap[v.a].items, 1, encrypted, d) + 2
    ELSE IF st.heap[v.a].cls = "stream"
    THEN 3 + WriteItems(st, st.heap[v.a].items, 1, encrypted, d)
           + 8 + Digits(st.heap[v.a].data.n) + 1 + 2
           + 8 + st.heap[v.a].data.n + 10
    ELSE 3 + WriteItems(st, st.heap[v.a].items, 1, encrypted, d) + 2

\* the entries from entry i on: " " and the value for an array; the key,
\* " ", the value and "\n" for a dictionary
WriteItems(st, items, i, encrypted, d) ==
    IF i > Len(items) THEN 0
    ELSE Len(items[i].k) + (IF items[i].k = "" THEN 1 ELSE 2)
         + WriteToStream(st, items[i].v, encrypted, d + 1)
         + WriteItems(st, items, i + 1, encrypted, d)

\* self._stream.write(...) and self._stream.tell()
Emit(st, chunk) == [st EXCEPT !.wr.out = Append(@, chunk)]

RECURSIVE Size(_)
Size(out) == IF out = <<>> THEN 0 ELSE out[Len(out)].n + Size(SubSeq(out, 1, Len(out) - 1))

Tell(st) == Size(st.wr.out)

\* write, lines 758-769: the pages that remember a reference
RECURSIVE PageRefs(_, _)
PageRefs(st, obj_idx) ==
    IF obj_idx > Len(st.wr.objects) THEN st
    ELSE LET obj == st.wr.objects[obj_idx]
         IN  PageRefs(IF IsPtr(obj) /\ st.heap[obj.a].cls = "page"
                         /\ st.heap[obj.a].indirectRef.t # "None"
                      THEN [st EXCEPT !.wr.extern_map =
                               ExternPut(@, st.heap[obj.a].indirectRef,
                                         IndirectObject(obj_idx, 0, "W"))]
                      ELSE st,
                      obj_idx + 1)

\* object_positions.append(self._stream.tell())
ObjectPositionAfterHeader(st, idnum) == Tell(st) + Digits(idnum) + 7

ObjectPosition(st, idnum) == Tell(st)

\* write, lines 782-798: the objects from idnum on; None and the NotInit
\* placeholder have no writeToStream
RECURSIVE WriteObjects(_, _, _)
WriteObjects(st, idnum, object_positions) ==
    IF idnum > Len(st.wr.objects) THEN Return(st, object_positions)
    ELSE LET obj == st.wr.objects[idnum]
             st1 == Emit(st, [k |-> "obj", id |-> idnum, n |-> Digits(idnum) + 7])
             encrypted == st.wr.encrypt.t # "None" /\ idnum # st.wr.encrypt.idnum
         IN  IF obj.t \in {"None", "NotInit"} THEN Raise(st1, "AttributeError")
             ELSE WriteObjects(
                      Emit(Emit(st1, [k |-> "body", id |-> idnum,
                                      n |-> WriteToStream(st1, obj, encrypted, 0)]),
                           [k |-> "endobj", id |-> idnum, n |-> 8]),
                      idnum + 1, Append(object_positions, ObjectPosition(st, idnum)))

\* write, lines 806-807
XrefRows(object_positions) ==
    [i \in 1..Len(object_positions) |->
        [k |-> "row", id |-> i, offset |-> object_positions[i], generation |-> 0,
         state |-> "n", n |-> 20]]

RECURSIVE EmitAll(_, _, _)
EmitAll(st, chunks, i) ==
    IF i > Len(chunks) THEN st ELSE EmitAll(Emit(st, chunks[i]), chunks, i + 1)

\* write, lines 800-827: the table, the trailer and startxref
WriteXref(st, object_positions) ==
    LET N == Len(st.wr.objects)
        xref_location == Tell(st)
        st1 == Emit(Emit(Emit(st, [k |-> "xref", n |-> 5]),
                         [k |-> "subsection", start |-> 0, count |-> N + 1,
                          n |-> 2 + Digits(N + 1) + 1]),
                    [k |-> "row", id |-> 0, offset |-> 0, generation |-> 65535,
                     state |-> "f", n |-> 20])
        st2 == Emit(EmitAll(st1, XrefRows(object_positions), 1), [k |-> "trailer", n |-> 8])
        size == 3 + (5 + 1 + Digits(N + 1) + 1)
                  + (5 + 1 + WriteToStream(st, st.wr.root, FALSE, 0) + 1)
                  + (5 + 1 + WriteToStream(st, st.wr.info, FALSE, 0) + 1)
                  + (IF st.wr.id.t # "None"
                     THEN 3 + 1 + WriteToStream(st, st.wr.id, FALSE, 0) + 1 ELSE 0)
                  + (IF st.wr.encrypt.t # "None"
                     THEN 8 + 1 + WriteToStream(st, st.wr.encrypt, FALSE, 0) + 1 ELSE 0)
                  + 2
    IN  IF st.wr.root.t = "None" \/ st.wr.info.t = "None" THEN Raise(st2, "AttributeError")
        ELSE Return(Emit(Emit(st2, [k |-> "trailerdict", size |-> N + 1, n |-> size]),
                         [k |-> "startxref", offset |-> xref_location,
                          n |-> 11 + Digits(xref_location) + 7]),
                    Null)

\* PdfFileWriter.write(stream), stream being a new, empty sink
Write(st) ==
    LET st0 == PageRefs([st EXCEPT !.wr.extern_map = EmptyMap, !.wr.stack = <<>>,
                                   !.wr.out = <<>>], 1)
        swept == SweepIndirectReferences(st0, st0.wr.root, 0)
        st1 == Emit(Emit([swept.st EXCEPT !.wr.stack = <<>>],
                         [k |-> "header", n |-> 9]), [k |-> "comment", n |-> 6])
        objs == WriteObjects(st1, 1, <<>>)
    IN  IF swept.exc # "none" THEN swept
        ELSE IF objs.exc # "none" THEN objs
        ELSE WriteXref(objs.st, objs.ret)

-----------------------------------------------------------------------------
(* The reader's operations                                                 *)

State == [heap |-> heap, readers |-> readers, wr |-> wr, warnings |-> {}, swept |-> {}]

\* PdfFileReader(stream, strict), one turn of the `while True` loop of
\* _parse_pdf_file: the constructor is at pc "walk" until the loop ends, and
\* ends "ready" or "raised" (no /Root in the trailer is a KeyError).  A walk
\* of MaxWalk sections is not continued.
PdfFileReaderInit(name) ==
    /\ readers[name].pc = "walk"
    /\ Len(readers[name].walked) < MaxWalk
    /\ LET res == ParseSection(State, name)
           r == res.st.readers[name]
       IN  /\ heap' = res.st.heap
           /\ readers' = IF res.exc # "none"
                         THEN Put(res.st.readers, name, [r EXCEPT !.pc = "raised"])
                         ELSE res.st.readers
           /\ last' = [op |-> "init", pdf |-> name, ref |-> None, ret |-> Null,
                       exc |-> IF res.exc = "none" /\ r.pc = "raised" THEN "KeyError"
                               ELSE res.exc,
                       hit |-> FALSE, warnings |-> res.st.warnings]
    /\ UNCHANGED wr

\* reader.get_object(ref), called by the user of a constructed reader
ReaderGetObject(name, ref) ==
    /\ readers[name].pc = "ready"
    /\ LET res == GetObject(State, name, ref, 0)
       IN  /\ heap' = res.st.heap
           /\ readers' = res.st.readers
           /\ last' = [op |-> "get_object", pdf |-> name, ref |-> ref,
                       ret |-> res.ret, exc |-> res.exc,
                       hit |-> Has(readers[name].cached_objs, <<ref.generation, ref.idnum>>),
                       warnings |-> res.st.warnings]
    /\ UNCHANGED wr

-----------------------------------------------------------------------------
(* Files                                                                   *)
(*                                                                         *)
(* A file is an update chain: section 1 is the most recent one (startxref  *)
(* points at it) and each section links to the next, older one.  Section i *)
(* lies at byte SecOff(i) and the copy of object x it wrote at ObjOff(i,x).*)

ObjIds == {1, 2}
SecOff(i) == 100 * i
ObjOff(i, x) == 10 * i + x

TableShapes == {"n0", "n1", "f0"}
StreamShapes == {"t0", "t1g0", "t1g1", "t2"}

\* what a section says about one id: the section's kind, the id, the entry
SectionChoices ==
    [kind : {"table"}, id : ObjIds, shape : TableShapes]
        \cup [kind : {"xstream"}, id : ObjIds, shape : StreamShapes]

Chains == UNION {[1..n -> SectionChoices] : n \in 1..MaxSections}

\* the generation a shape gives its object
ShapeGen(shape) == IF shape \in {"n1", "t1g1"} THEN 1 ELSE 0

\* a row of a classic table: `%010d %05d %c`
Row(offset, generation, state) ==
    [offset |-> offset, generation |-> generation, state |-> state]

\* the row of section i for id x, the section being about id c.id
TableRow(c, i, x) ==
    IF x = 0 THEN Row(0, 65535, "f")
    ELSE IF x # c.id THEN Row(ObjOff(i, x), 0, "n")
    ELSE IF c.shape = "f0" THEN Row(0, 0, "f")
    ELSE Row(ObjOff(i, x), ShapeGen(c.shape), "n")

\* an entry of a cross-reference stream
StreamEntry(c, i) ==
    IF c.shape = "t0" THEN [idnum |-> c.id, type |-> 0, f1 |-> 0, f2 |-> 1]
    ELSE IF c.shape = "t2" THEN [idnum |-> c.id, type |-> 2, f1 |-> 3 - c.id, f2 |-> 0]
    ELSE [idnum |-> c.id, type |-> 1, f1 |-> ObjOff(i, c.id), f2 |-> ShapeGen(c.shape)]

\* the id of the cross-reference stream of section i
XrefStmId(i, reuse) == IF reuse THEN 9 ELSE 8 + i

\* the trailer (or stream dictionary) keys of section i of n
LinkKeys(i, n) == IF i < n THEN <<"/Root", "/Prev">> ELSE <<"/Root">>

TrailerOf(i, n) ==
    [k \in {LinkKeys(i, n)[j] : j \in 1..Len(LinkKeys(i, n))} |->
        IF k = "/Prev" THEN Num(SecOff(i + 1)) ELSE IndirectObject(1, 0, "")]

Section(chain, i, start, reuse) ==
    LET c == chain[i]
        n == Len(chain)
    IN  IF c.kind = "table"
        THEN [kind |-> "table",
              subsections |-> <<[start |-> start,
                                 rows |-> [k \in 1..(c.id - start + 1) |->
                                              TableRow(c, i, start + k - 1)]]>>,
              trailer |-> TrailerOf(i, n)]
        ELSE [kind |-> "xstream", idnum |-> XrefStmId(i, reuse), generation |-> 0,
              entries |-> <<StreamEntry(c, i)>>,
              keys |-> <<"/Type">> \o LinkKeys(i, n),
              dict |-> [k \in {"/Type"} \cup DOMAIN TrailerOf(i, n) |->
                          IF k = "/Type" THEN Name("/XRef") ELSE TrailerOf(i, n)[k]]]

\* what read_object finds at the body of a plain object: a dictionary with
\* one entry telling which copy it is
PlainBody(tag) ==
    [t |-> "cell", cls |-> "dict", items |-> <<Item("/V", Num(tag))>>, data |-> None]

\* the generation in the header of the copy of object x written by section i
HeaderGen(chain, i, x) == IF chain[i].id = x THEN ShapeGen(chain[i].shape) ELSE 0

\* the file of a chain.  start is the first id of every classic table, skew
\* is subtracted from the id in every object header (a file whose tables are
\* numbered from 1 while its objects are numbered from 0 has skew 1).
File(chain, start, skew, reuse) ==
    LET n == Len(chain)
        offs == {ObjOff(i, x) : i \in 1..n, x \in ObjIds}
    IN  [startxref |-> SecOff(1),
         xref |-> [o \in {SecOff(i) : i \in 1..n} |-> Section(chain, o \div 100, start, reuse)],
         objs |-> [o \in offs |->
                     [idnum |-> (o % 10) - skew,
                      generation |-> HeaderGen(chain, o \div 10, o % 10),
                      body |-> PlainBody(o)]]]

\* (first table id, header skew) of a file
Layouts == {<<0, 0>>, <<1, 0>>, <<1, 1>>}

NoCall == [op |-> "none", pdf |-> "", ref |-> None, ret |-> Null, exc |-> "none",
           hit |-> FALSE, warnings |-> {}]

Requests == {IndirectObject(x, g, "R1") : x \in ObjIds \cup {9}, g \in {0, 1}}

InitXref ==
    /\ heap = EmptyMap
    /\ wr = NoWriter
    /\ last = NoCall
    /\ \E chain \in Chains, strict \in BOOLEAN, lay \in Layouts, reuse \in BOOLEAN :
          readers = [n \in {"R1"} |->
                        NewReader("R1", File(chain, lay[1], lay[2], reuse), strict)]

NextXref ==
    \/ PdfFileReaderInit("R1")
    \/ \E ref \in Requests : ReaderGetObject("R1", ref)

SpecXref == InitXref /\ [][NextXref]_vars

-----------------------------------------------------------------------------
(* Cross-reference precedence and lookup                                   *)

\* the reader of the specifications with one reader
R1 == readers["R1"]

\* the entry a section gives for id x: <<"table", offset, free, generation>>,
\* <<"xstream", type, f1, f2>>, or <<>> when the section does not mention x
DefinedBy(sec, x) ==
    IF sec.kind = "table"
    THEN LET sub == sec.subsections[1]
             k == x - sub.start + 1
         IN  IF k \in 1..Len(sub.rows)
             THEN <<"table", sub.rows[k].offset, sub.rows[k].state = "f",
                    sub.rows[k].generation>>
             ELSE <<>>
    ELSE IF \E j \in 1..Len(sec.entries) : sec.entries[j].idnum = x
    THEN LET j == CHOOSE j \in 1..Len(sec.entries) : sec.entries[j].idnum = x
         IN  <<"xstream", sec.entries[j].type, sec.entries[j].f1, sec.entries[j].f2>>
    ELSE <<>>

\* the positions in walk order of the sections that define x
Definers(r, x) ==
    {i \in 1..Len(r.walked) : DefinedBy(r.stream.xref[r.walked[i]], x) # <<>>}

\* the first (most recent) definition of x in walk order
FirstDef(r, x) ==
    LET i == CHOOSE i \in Definers(r, x) : \A j \in Definers(r, x) : i <= j
    IN  DefinedBy(r.stream.xref[r.walked[i]], x)

\* get_object, asked for x under the generation of definition e (generation
\* 0 for a free or compressed stream entry), uses exactly e
UsesEntry(r, x, e) ==
    IF e[1] = "table"
    THEN /\ Source(r, IndirectObject(x, e[4], r.name)) = R_XTABLE
         /\ r.xref_table[e[4]][x] = [offset |-> e[2], free |-> e[3]]
    ELSE /\ Source(r, IndirectObject(x, 0, r.name)) = R_XSTREAM
         /\ r.xref_stm[x] = <<e[2], e[3], e[4]>>

\* C1 (as stated): after the walk of a zero-indexed file, every id defined by
\* more than one section is looked up by get_object through the entry of the
\* first, most recent, section that defines it, whatever the entry's type.
C1_FirstSectionWins ==
    (R1.pc = "ready" /\ R1.xref_idx = 0) =>
        \A x \in ObjIds :
            Cardinality(Definers(R1, x)) > 1 => UsesEntry(R1, x, FirstDef(R1, x))

\* the id of ref is in the cross-reference-stream index
InStm(r, ref) == ref.idnum \in DOMAIN r.xref_stm

\* (generation, id) of ref is in the classic-table index
InTable(r, ref) ==
    Has(r.xref_table, ref.generation) /\ ref.idnum \in DOMAIN r.xref_table[ref.generation]

\* the entry get_object finds for ref is a free one
IsFree(r, ref) ==
    IF InStm(r, ref) THEN r.xref_stm[ref.idnum][1] = 0
    ELSE InTable(r, ref) /\ r.xref_table[ref.generation][ref.idnum].free

\* the last operation was a get_object that had to look its reference up
Lookup == last.op = "get_object" /\ ~last.hit

\* C6 (as stated): in non-strict mode a lookup of a free or of an undefined
\* reference returns the null object; in strict mode both raise PdfReadError.
C6_FreeOrUndefinedIsNull ==
    (Lookup /\ (IsFree(R1, last.ref) \/ ~(InStm(R1, last.ref) \/ InTable(R1, last.ref)))) =>
        IF R1.strict THEN last.exc = "PdfReadError"
        ELSE last.exc = "none" /\ last.ret = Null /\ last.warnings # {}

\* C6 (amended): a lookup of a free reference returns the null object with a
\* warning in non-strict mode and raises PdfReadError in strict mode; a lookup
\* of a reference defined in neither index warns and raises PdfReadError in
\* both modes.
C6_FreeIsNullUndefinedRaises ==
    Lookup =>
        /\ IsFree(R1, last.ref) =>
              IF R1.strict THEN last.exc = "PdfReadError"
              ELSE /\ last.exc = "none" /\ last.ret = Null
                   /\ last.warnings = {"fetching a free object"}
        /\ ~(InStm(R1, last.ref) \/ InTable(R1, last.ref)) =>
              last.exc = "PdfReadError" /\ last.warnings = {"not defined"}

C6_Witness ==
    /\ Lookup /\ ~R1.strict /\ IsFree(R1, last.ref)
    /\ last.ret = Null /\ last.exc = "none"

\* what reading the object at byte `off` for ref gives: PdfReadError in
\* strict mode when the header there names another (id, generation),
\* otherwise the object written there
ReadsAt(r, ref, off) ==
    LET o == r.stream.objs[off]
    IN  IF r.strict /\ (o.idnum # ref.idnum \/ o.generation # ref.generation)
        THEN last.exc = "PdfReadError"
        ELSE /\ last.exc = "none" /\ IsPtr(last.ret)
             /\ heap[last.ret.a].items = <<Item("/V", Num(off))>>

\* the outcome of the last get_object is the one its stream entry gives
ViaStream(r, ref) ==
    LET e == r.xref_stm[ref.idnum]
    IN  IF e[1] = 0
        THEN IF r.strict THEN last.exc = "PdfReadError"
             ELSE last.exc = "none" /\ last.ret = Null
        ELSE IF e[1] = 1
        THEN IF e[3] # ref.generation THEN last.exc = "ValueError"
             ELSE ReadsAt(r, ref, e[2])
        ELSE ~(last.exc = "none" /\ IsPtr(last.ret))

\* the outcome of the last get_object is the one its table row gives
ViaTable(r, ref) ==
    LET e == r.xref_table[ref.generation][ref.idnum]
    IN  IF e.free
        THEN IF r.strict THEN last.exc = "PdfReadError"
             ELSE last.exc = "none" /\ last.ret = Null
        ELSE ReadsAt(r, ref, e.offset)

\* the offset get_object reads the object of ref at: that of the stream
\* entry of type 1 of its id and generation, else that of the in-use table
\* row of its generation and id; -1 when it reads nothing
RecordedOffset(r, ref) ==
    IF InStm(r, ref)
    THEN IF r.xref_stm[ref.idnum][1] = 1 /\ r.xref_stm[ref.idnum][3] = ref.generation
         THEN r.xref_stm[ref.idnum][2] ELSE 0 - 1
    ELSE IF InTable(r, ref) /\ ~r.xref_table[ref.generation][ref.idnum].free
    THEN r.xref_table[ref.generation][ref.idnum].offset
    ELSE 0 - 1

\* the last get_object read an object with a header at the recorded offset
ReadsHeader == Lookup /\ HasHeader(R1, RecordedOffset(R1, last.ref))

\* the header there names another id or generation than the reference
HeaderDiffers ==
    \/ R1.stream.objs[RecordedOffset(R1, last.ref)].idnum # last.ref.idnum
    \/ R1.stream.objs[RecordedOffset(R1, last.ref)].generation # last.ref.generation

\* C21: a get_object that reads an in-use object whose header names another
\* id or generation raises PdfReadError in strict mode and caches nothing for
\* the reference; outside strict mode (and when the header agrees) the object
\* written there is returned and cached under the requested (generation, id).
C21_HeaderCompared ==
    ReadsHeader =>
        IF R1.strict /\ HeaderDiffers
        THEN /\ last.exc = "PdfReadError"
             /\ ~Has(R1.cached_objs, <<last.ref.generation, last.ref.idnum>>)
        ELSE /\ last.exc = "none" /\ IsPtr(last.ret)
             /\ heap[last.ret.a].items = <<Item("/V", Num(RecordedOffset(R1, last.ref)))>>
             /\ Has(R1.cached_objs, <<last.ref.generation, last.ref.idnum>>)
             /\ R1.cached_objs[<<last.ref.generation, last.ref.idnum>>] = last.ret

\* a non-strict reader returned and cached an object whose header names
\* another id or generation
C21_Witness ==
    /\ ReadsHeader /\ HeaderDiffers /\ ~R1.strict
    /\ last.exc = "none"
    /\ R1.cached_objs[<<last.ref.generation, last.ref.idnum>>] = last.ret

\* C7: a lookup is answered by the stream entry of the id when the stream
\* index has one, by the table row of (generation, id) only when it has none,
\* and raises PdfReadError when neither has it; a step that looks up such an
\* undefined reference leaves the cache as it was.
C7_StreamIndexFirst ==
    /\ [](Lookup =>
            IF InStm(R1, last.ref) THEN ViaStream(R1, last.ref)
            ELSE IF InTable(R1, last.ref) THEN ViaTable(R1, last.ref)
            ELSE last.exc = "PdfReadError")
    /\ [][(last'.op = "get_object" /\ R1.pc = "ready"
             /\ ~(InStm(R1, last'.ref) \/ InTable(R1, last'.ref)))
            => readers'["R1"].cached_objs = R1.cached_objs]_vars

\* an id present in both indexes with different entries, looked up
C7_Witness ==
    /\ Lookup /\ InStm(R1, last.ref) /\ InTable(R1, last.ref)
    /\ R1.xref_stm[last.ref.idnum][1] = 1
    /\ ~R1.xref_table[last.ref.generation][last.ref.idnum].free
    /\ R1.xref_stm[last.ref.idnum][2] # R1.xref_table[last.ref.generation][last.ref.idnum].offset
    /\ last.exc = "none" /\ IsPtr(last.ret)

-----------------------------------------------------------------------------
(* The reader's cache                                                      *)

\* every cache entry of the reader is the same object after the step
CacheKept ==
    \A k \in DOMAIN R1.cached_objs :
        k \in DOMAIN readers'["R1"].cached_objs
            /\ readers'["R1"].cached_objs[k] = R1.cached_objs[k]

\* what get_object returns is what the cache holds for the reference, and a
\* reference found in the cache is answered from it
ReturnsCached ==
    last.op = "get_object" =>
        /\ last.exc = "none" =>
              /\ Has(R1.cached_objs, <<last.ref.generation, last.ref.idnum>>)
              /\ R1.cached_objs[<<last.ref.generation, last.ref.idnum>>] = last.ret
        /\ last.hit => last.exc = "none"

\* C2 (as stated): get_object returns for a reference the object the cache
\* holds for it, and no step of the reader ever replaces or removes a cache
\* entry.
C2_CacheNeverReplaced == []ReturnsCached /\ [][CacheKept]_vars

\* C2 (amended): get_object returns for a reference the object the cache
\* holds for it; no step of a constructed reader, and no step at all of a
\* strict reader, replaces or removes a cache entry.  (The constructor of a
\* non-strict reader replaces the entry of a cross-reference stream when an
\* older cross-reference stream has the same generation and id.)
C2_CacheStableOnceBuilt ==
    []ReturnsCached /\ [][(R1.pc = "ready" \/ R1.strict) => CacheKept]_vars

\* a reference answered from the cache with a dictionary, another reference
\* having been resolved as well
C2_Witness ==
    /\ last.op = "get_object" /\ last.hit /\ IsPtr(last.ret)
    /\ Cardinality({k \in DOMAIN R1.cached_objs : IsPtr(R1.cached_objs[k])}) >= 2

-----------------------------------------------------------------------------
(* Object streams                                                          *)
(*                                                                         *)
(* A file with one cross-reference stream (object 9) that gives object 3,  *)
(* the container, as in use at byte 30 and objects 5 and 7 as compressed   *)
(* in it.  Header pair k of the container is (ids[k], 10 * k) and /First   *)
(* is 10, so sub-object k is parsed at byte 10 + 10 * k of the data.       *)

StmIds == {5, 7}

PairSeqs == UNION {[1..n -> StmIds] : n \in 1..MaxPairs}

\* the container: ids are the ids of its header pairs, n its /N, bad the
\* pair whose sub-object cannot be parsed (0: none)
ObjStm(ids, n, bad) ==
    [t |-> "cell", cls |-> "stream",
     items |-> <<Item("/Type", Name("/ObjStm")), Item("/N", Num(n)),
                 Item("/First", Num(10))>>,
     data |-> [pairs |-> [k \in 1..Len(ids) |-> [objnum |-> ids[k], offset |-> 10 * k]],
               content |-> [pos \in {10 + 10 * k : k \in 1..Len(ids)} |->
                               IF pos = 10 + 10 * bad THEN [t |-> "bad"]
                               ELSE PlainBody(pos)]]]

\* local is the local index the cross-reference stream gives for each id
ObjStmFile(ids, n, bad, local) ==
    [startxref |-> 100,
     xref |-> [o \in {100} |->
                 [kind |-> "xstream", idnum |-> 9, generation |-> 0,
                  entries |-> <<[idnum |-> 3, type |-> 1, f1 |-> 30, f2 |-> 0],
                                [idnum |-> 5, type |-> 2, f1 |-> 3, f2 |-> local[5]],
                                [idnum |-> 7, type |-> 2, f1 |-> 3, f2 |-> local[7]]>>,
                  keys |-> <<"/Type", "/Root">>,
                  dict |-> [k \in {"/Type", "/Root"} |->
                              IF k = "/Type" THEN Name("/XRef")
                              ELSE IndirectObject(5, 0, "")]]],
     objs |-> [o \in {30} |-> [idnum |-> 3, generation |-> 0,
                               body |-> ObjStm(ids, n, bad)]]]

StmRequests == {IndirectObject(x, 0, "R1") : x \in StmIds \cup {3}}
                   \cup {IndirectObject(5, 1, "R1")}

InitObjStm ==
    /\ heap = EmptyMap
    /\ wr = NoWriter
    /\ last = NoCall
    /\ \E ids \in PairSeqs, strict \in BOOLEAN, local \in [StmIds -> 0..(MaxPairs - 1)] :
         \E n \in 0..Len(ids), bad \in 0..Len(ids) :
            readers = [x \in {"R1"} |->
                          NewReader("R1", ObjStmFile(ids, n, bad, local), strict)]

NextObjStm ==
    \/ PdfFileReaderInit("R1")
    \/ \E ref \in StmRequests : ReaderGetObject("R1", ref)

SpecObjStm == InitObjStm /\ [][NextObjStm]_vars

\* the container as the file has it, its /N and its header pairs
Container == R1.stream.objs[30].body
ContainerN == RawGet(Container, "/N").v
Pairs == Container.data.pairs

\* the 0-based positions, among the first /N header pairs, of those for id x
PairsOf(x) == {k \in 0..(ContainerN - 1) : Pairs[k + 1].objnum = x}

FirstPairOf(x) == CHOOSE k \in PairsOf(x) : \A j \in PairsOf(x) : k <= j

\* the last get_object returned the sub-object parsed at byte pos of the
\* container's data
ReturnsSubObjectAt(pos) ==
    /\ last.exc = "none" /\ IsPtr(last.ret)
    /\ heap[last.ret.a].items = <<Item("/V", Num(pos))>>

\* the last operation looked up a reference with a compressed (type 2) entry
CompressedLookup == Lookup /\ InStm(R1, last.ref) /\ R1.xref_stm[last.ref.idnum][1] = 2

\* C10 (as stated): a lookup of a compressed object returns the sub-object
\* at /First + offset of the header pair with its id, whatever was resolved
\* before; with no such pair it raises an error in strict mode and returns
\* the null object otherwise.
C10_SubObjectOfMatchingPair ==
    (CompressedLookup /\ \A pos \in DOMAIN Container.data.content :
                             Container.data.content[pos].t # "bad") =>
        IF PairsOf(last.ref.idnum) # {}
        THEN \E k \in PairsOf(last.ref.idnum) : ReturnsSubObjectAt(10 + Pairs[k + 1].offset)
        ELSE IF R1.strict THEN last.exc # "none"
             ELSE last.exc = "none" /\ last.ret = Null

\* C10 (amended): a local index not below /N raises PdfStreamError in both
\* modes.  Otherwise the lookup goes by the first of the first /N header
\* pairs with the requested id, whatever was resolved before: with no such
\* pair it raises PdfReadError in strict mode and returns the null object
\* otherwise; in strict mode a pair whose position is not the local index
\* raises PdfReadError; a sub-object that cannot be parsed raises
\* PdfReadError in strict mode and is the null object otherwise; in every
\* other case the sub-object parsed at /First + offset of that pair is
\* returned.
C10_SubObjectOfFirstPair ==
    CompressedLookup =>
        LET x == last.ref.idnum
            local_id == R1.xref_stm[x][3]
        IN  IF local_id >= ContainerN THEN last.exc = "PdfStreamError"
            ELSE IF PairsOf(x) = {}
            THEN IF R1.strict THEN last.exc = "PdfReadError"
                 ELSE last.exc = "none" /\ last.ret = Null
            ELSE IF R1.strict /\ FirstPairOf(x) # local_id THEN last.exc = "PdfReadError"
            ELSE IF Container.data.content[10 + Pairs[FirstPairOf(x) + 1].offset].t = "bad"
            THEN IF R1.strict THEN last.exc = "PdfReadError"
                 ELSE last.exc = "none" /\ last.ret = Null
            ELSE ReturnsSubObjectAt(10 + Pairs[FirstPairOf(x) + 1].offset)

\* the second sub-object returned after the first one had been resolved
C10_Witness ==
    /\ CompressedLookup /\ PairsOf(last.ref.idnum) = {1}
    /\ ReturnsSubObjectAt(30)
    /\ \E k \in DOMAIN R1.cached_objs :
          k[2] \in StmIds /\ k[2] # last.ref.idnum /\ IsPtr(R1.cached_objs[k])


-----------------------------------------------------------------------------
(* Documents for the writer                                                *)
(*                                                                         *)
(* A document has a catalog (1), a page tree root (2) with one page (3)    *)
(* whose /Contents and /Thumb are the stream 4, and, when `info`, an       *)
(* information dictionary (5).  With g = 1 the stream in use has           *)
(* generation 1 and an older section still lists its generation 0.         *)

DocBody(x, g, tag) ==
    [t |-> "cell", data |-> IF x = 4 THEN [n |-> 6 + tag] ELSE None,
     cls |-> IF x = 4 THEN "stream" ELSE "dict",
     items |-> IF x = 1 THEN <<Item("/Type", Name("/Catalog")),
                               Item("/Pages", IndirectObject(2, 0, ""))>>
               ELSE IF x = 2 THEN <<Item("/Type", Name("/Pages")), Item("/Count", Num(1)),
                                    Item("/Kids", [t |-> "arr",
                                                   items |-> <<IndirectObject(3, 0, "")>>])>>
               ELSE IF x = 3 THEN <<Item("/Type", Name("/Page")),
                                    Item("/Parent", IndirectObject(2, 0, "")),
                                    Item("/Contents", IndirectObject(4, g, "")),
                                    Item("/Thumb", IndirectObject(4, g, ""))>>
               ELSE IF x = 4 THEN <<>>
               ELSE <<Item("/Title", Str("doc"))>>]

DocIds(info) == IF info THEN 1..5 ELSE 1..4

DocTrailer(g, info, i) ==
    [k \in {"/Size", "/Root"} \cup (IF info THEN {"/Info"} ELSE {})
           \cup (IF g = 1 /\ i = 1 THEN {"/Prev"} ELSE {}) |->
        IF k = "/Size" THEN Num(IF info THEN 6 ELSE 5)
        ELSE IF k = "/Root" THEN IndirectObject(1, 0, "")
        ELSE IF k = "/Info" THEN IndirectObject(5, 0, "")
        ELSE Num(SecOff(2))]

Document(g, info, tag) ==
    [startxref |-> SecOff(1),
     xref |-> [o \in {SecOff(i) : i \in 1..(1 + g)} |->
                 IF o = SecOff(1)
                 THEN [kind |-> "table",
                       subsections |-> <<[start |-> 0,
                                          rows |-> <<Row(0, 65535, "f")>> \o
                                                   [x \in DocIds(info) |->
                                                       Row(ObjOff(1, x),
                                                           IF x = 4 THEN g ELSE 0, "n")]]>>,
                       trailer |-> DocTrailer(g, info, 1)]
                 ELSE [kind |-> "table",
                       subsections |-> <<[start |-> 0, rows |-> <<Row(0, 65535, "f")>>],
                                         [start |-> 4, rows |-> <<Row(ObjOff(2, 4), 0, "n")>>]>>,
                       trailer |-> DocTrailer(g, info, 2)]],
     objs |-> [o \in {ObjOff(1, x) : x \in DocIds(info)}
                     \cup (IF g = 1 THEN {ObjOff(2, 4)} ELSE {}) |->
                 [idnum |-> o % 10,
                  generation |-> IF o = ObjOff(1, 4) THEN g ELSE 0,
                  body |-> DocBody(o % 10, g, tag + (o \div 10))]]]

\* PdfFileReader(stream, strict) run to its end
RECURSIVE Constructed(_, _)
RECURSIVE ConstructedNext(_, _)
Constructed(st, name) ==
    IF st.readers[name].pc # "walk" THEN st
    ELSE ConstructedNext(name, ParseSection(st, name))

ConstructedNext(name, res) ==
    IF res.exc # "none"
    THEN SetR(res.st, [res.st.readers[name] EXCEPT !.pc = "raised"])
    ELSE Constructed(res.st, name)


-----------------------------------------------------------------------------
(* The writer's operations                                                 *)

\* the outcome `res` of the operation `op` becomes the state
Outcome(op, ref, res) ==
    /\ heap' = res.st.heap
    /\ readers' = res.st.readers
    /\ wr' = res.st.wr
    /\ last' = [op |-> op, pdf |-> "W", ref |-> ref, ret |-> res.ret, exc |-> res.exc,
                hit |-> FALSE, warnings |-> res.st.warnings, swept |-> res.st.swept,
                n |-> last.n + 1]

\* the calls are counted, and no more than MaxCalls are made
MayCall == last.n < MaxCalls

\* reader.get_page(page_number)
ReaderGetPage(name, page_number) ==
    /\ MayCall
    /\ readers[name].pc = "ready"
    /\ Outcome("get_page", IndirectObject(page_number, 0, name),
               GetPage(State, name, page_number))

\* writer.add_page(page), page being a page a reader returned or the
\* reference that page remembers
WriterAddPage(page) ==
    /\ MayCall
    /\ Outcome("add_page", page, InsertPage(State, page))

\* ref.clone(writer)
IndirectObjectClone(ref) ==
    /\ MayCall
    /\ Outcome("clone", ref, CloneRef(State, ref, 0))

\* writer.reset_cloning()
WriterResetCloning ==
    /\ MayCall
    /\ Outcome("reset_cloning", None, Return(ResetCloning(State), Null))

\* writer.clone(reader)
PdfFileWriterClone(name) ==
    /\ MayCall
    /\ readers[name].pc = "ready"
    /\ Outcome("writer_clone", IndirectObject(0, 0, name), WriterClone(State, name))

\* writer.encrypt(user_pwd)
WriterEncrypt ==
    /\ MayCall
    /\ Outcome("encrypt", None, Return(Encrypt(State), Null))

\* writer._add_object(obj), obj being a new dictionary
WriterAddObject ==
    /\ MayCall
    /\ LET st == AddObject(Alloc(State, Cell("dict", <<>>)), Ptr(NewAddr(State)))
       IN  Outcome("add_object", None, Return(st, AddedRef(st)))

\* writer.write(stream)
WriterWrite ==
    /\ MayCall
    /\ Outcome("write", None, Write(State))

PageArgs ==
    {readers[n].flatten_pages[k] : n \in {"R1"}, k \in 1..Len(readers["R1"].flatten_pages)}
    \cup {IndirectObject(3, 0, n) : n \in {"R1", "R2"}}

CloneArgs ==
    {IndirectObject(3, 0, n) : n \in {"R1", "R2"}}
    \cup {IndirectObject(4, h, "R1") : h \in {0, 1}}

InitWriter ==
    \E g \in {0, 1} :
        LET st0 == [heap |-> EmptyMap, wr |-> NoWriter, warnings |-> {}, swept |-> {},
                    readers |-> [n \in {"R1", "R2"} |->
                                    NewReader(n, Document(g, n = "R1",
                                                          IF n = "R1" THEN 0 ELSE 1), FALSE)]]
            st1 == PdfFileWriterInit(Constructed(Constructed(st0, "R1"), "R2"))
        IN  /\ heap = st1.heap
            /\ readers = st1.readers
            /\ wr = st1.wr
            /\ last = [op |-> "none", pdf |-> "", ref |-> None, ret |-> Null,
                       exc |-> "none", hit |-> FALSE, warnings |-> {}, swept |-> {},
                       n |-> 0]

NextWriter ==
    \/ ReaderGetPage("R1", 0)
    \/ \E page \in PageArgs : WriterAddPage(page)
    \/ \E ref \in CloneArgs : IndirectObjectClone(ref)
    \/ WriterResetCloning
    \/ \E name \in {"R1", "R2"} : PdfFileWriterClone(name)
    \/ WriterEncrypt
    \/ WriterAddObject
    \/ WriterWrite

SpecWriter == InitWriter /\ [][NextWriter]_vars

\* the operations end without an error of the model's own
TypeOK == last.exc \in {"none", "PdfReadError", "PdfStreamError", "ValueError", "KeyError",
                        "TypeError", "AttributeError", "IndexError", "RecursionError",
                        "AssertionError"}


-----------------------------------------------------------------------------
(* Cloning                                                                 *)

\* the object list entry idnum of the writer, in a heap
Entry(h, w, idnum) == h[w.objects[idnum].a]

\* entry idnum is a dictionary of the given /Type
HasType(h, w, idnum, type) ==
    /\ IsPtr(w.objects[idnum])
    /\ "/Type" \in Keys(Entry(h, w, idnum))
    /\ RawGet(Entry(h, w, idnum), "/Type") = Name(type)

\* A is the page (3, 0) of a document and B its page tree root (2, 0): the
\* page holds /Parent, a reference to B, and B holds in /Kids a reference
\* back to the page.  A call clones the cycle when it clones the reference
\* to the page and neither id has a translation yet, or when it is
\* writer.clone(reader), which clones the dictionary B itself after
\* emptying the table.
ClonesCycle ==
    /\ last'.n = last.n + 1
    /\ \/ last'.op = "writer_clone"
       \/ /\ last'.op = "clone"
          /\ last'.ref.idnum = 3
          /\ ~Has(wr.id_translated, 3)
          /\ ~Has(wr.id_translated, 2)

\* the entries the call added
AddedEntries ==
    ((IF last'.op = "writer_clone" THEN 0 ELSE Len(wr.objects)) + 1)..Len(wr'.objects)

CycleCloned ==
    LET dstA == wr'.id_translated[3]
        dstB == wr'.id_translated[2]
        kids == heap'[RawGet(Entry(heap', wr', dstB), "/Kids").a].items
    IN  /\ last'.exc = "none"
        /\ {i \in AddedEntries : HasType(heap', wr', i, "/Page")} = {dstA}
        /\ {i \in AddedEntries : HasType(heap', wr', i, "/Pages")} = {dstB}
        /\ RawGet(Entry(heap', wr', dstA), "/Parent") = IndirectObject(dstB, 0, "W")
        /\ kids = <<Item("", IndirectObject(dstA, 0, "W"))>>

\* C3: cloning into the writer a dictionary A that holds a reference to B,
\* B holding a reference back to A, ends without an error and adds to the
\* object list exactly one object for A and exactly one for B; the clone of
\* A references the clone of B and the clone of B the clone of A.
C3_CycleClonedOnce == [][ClonesCycle => CycleCloned]_vars

C3_Witness ==
    /\ last.op = "clone"
    /\ last.n = 1
    /\ last.ref = IndirectObject(3, 0, "R1")
    /\ last.exc = "none"
    /\ Len(wr.objects) = 6
    /\ HasType(heap, wr, wr.id_translated[3], "/Page")

\* the destination of every clone is the one the table holds for its key
CloneLogAgrees ==
    \A e \in wr.clones :
        /\ Has(wr.id_translated, e.src.idnum)
        /\ e.dst = IndirectObject(wr.id_translated[e.src.idnum], 0, "W")

\* a call of ref.clone(writer): a translated id returns the recorded
\* destination and adds nothing, another one gets the next entry of the
\* object list
CloneStep ==
    (last'.n = last.n + 1 /\ last'.op = "clone" /\ last'.exc = "none") =>
        IF Has(wr.id_translated, last'.ref.idnum)
        THEN /\ last'.ret = IndirectObject(wr.id_translated[last'.ref.idnum], 0, "W")
             /\ wr'.objects = wr.objects
        ELSE /\ last'.ret = IndirectObject(Len(wr.objects) + 1, 0, "W")
             /\ Len(wr'.objects) > Len(wr.objects)

ResetStep ==
    (last'.n = last.n + 1 /\ last'.op = "reset_cloning") =>
        /\ wr'.id_translated = EmptyMap
        /\ wr'.objects = wr.objects

\* C5 as claimed: the references cloned into the writer since its table
\* was last emptied get one destination per source object, and two of them
\* that differ in document or in generation get different destinations.
C5_TranslationPerSourceObject ==
    \A e1, e2 \in wr.clones :
        /\ e1.src = e2.src => e1.dst = e2.dst
        /\ (e1.src.pdf # e2.src.pdf \/ e1.src.generation # e2.src.generation)
              => e1.dst # e2.dst

\* C5: the translation table is keyed by the id number alone.  A reference
\* is cloned once and every later reference with the same id number,
\* whatever its document and generation, gets the same destination id and
\* adds no object, until reset_cloning() (or writer.clone) empties the
\* table; a reference whose id number has no translation gets a new entry
\* of the object list.
C5_TranslationPerIdNumber ==
    /\ [](\A e1, e2 \in wr.clones : e1.src.idnum = e2.src.idnum => e1.dst = e2.dst)
    /\ []CloneLogAgrees
    /\ [][CloneStep /\ ResetStep]_vars

C5_Witness ==
    /\ last.op = "clone"
    /\ last.exc = "none"
    /\ \E e1, e2 \in wr.clones :
          /\ e1.src.idnum = e2.src.idnum
          /\ e1.src.pdf # e2.src.pdf
          /\ e1.dst = e2.dst
          /\ e2.src = last.ref


-----------------------------------------------------------------------------
(* The sweep and the output of write()                                     *)

\* C4 as claimed: what the sweep of a write() returns for a reference into
\* another document is a reference owned by the writer, and the same one
\* for every reference with the same document, generation and id.
C4_ForeignReferencesReplaced ==
    last.op = "write" =>
        /\ \A e \in last.swept : IsRef(e.ret) /\ e.ret.pdf = "W"
        /\ \A e1, e2 \in last.swept : e1.data = e2.data => e1.ret = e2.ret

\* an entry that holds an object, not a placeholder to be filled
Assigned(obj) == obj.t \notin {"None", "NotInit"}

\* the list is at least as long after the step and its assigned entries
\* are the same objects at the same positions
ListKept ==
    /\ Len(wr'.objects) >= Len(wr.objects)
    /\ \A i \in 1..Len(wr.objects) :
          Assigned(wr.objects[i]) => wr'.objects[i] = wr.objects[i]

\* the reference _add_object returned addresses the object it was given,
\* the last entry
AddressesLast ==
    last.op = "add_object" =>
        /\ last.ret = IndirectObject(Len(wr.objects), 0, "W")
        /\ WriterGetObject(State, last.ret).ret = Ptr(Addr("W", 0, 0, wr.nalloc))
        /\ wr.objects[Len(wr.objects)] = Ptr(Addr("W", 0, 0, wr.nalloc))

\* _add_object takes the next id: the list is one longer and the reference
\* returned carries the new length
AppendsOne ==
    (last'.n = last.n + 1 /\ last'.op = "add_object") =>
        /\ Len(wr'.objects) = Len(wr.objects) + 1
        /\ last'.ret = IndirectObject(Len(wr.objects) + 1, 0, "W")

\* C8 as claimed: over every operation the object list keeps its length or
\* grows and keeps its assigned entries, and the k-th appended object is
\* addressed by (k, 0).
C8_ObjectListOnlyGrows == []AddressesLast /\ [][ListKept /\ AppendsOne]_vars

\* C8: writer.clone(source) empties the object list and fills it anew, so
\* the entries it held are gone and their ids are given to other objects;
\* over every other operation (add-object, page insertion, encrypt, the
\* cloning of a reference, sweep and write) the list keeps its length or
\* grows and an assigned entry keeps its position.  The k-th appended
\* object is addressed by (k, 0).
C8_ObjectListGrowsBetweenClones ==
    /\ []AddressesLast
    /\ [][AppendsOne /\ (last'.op # "writer_clone" => ListKept)]_vars

C8_Witness ==
    /\ last.op = "add_object"
    /\ last.exc = "none"
    /\ Len(wr.objects) >= 5
    /\ last.ret = IndirectObject(Len(wr.objects), 0, "W")

\* the chunks of a kind, in the order written
Chunks(kind) == SelectSeq(wr.out, LAMBDA c : c.k = kind)

\* the sink position at which chunk j was written
PositionOf(j) == Size(SubSeq(wr.out, 1, j - 1))

\* the place in the output of the first chunk of a kind
First(kind) == CHOOSE j \in 1..Len(wr.out) :
                  /\ wr.out[j].k = kind
                  /\ \A h \in 1..(j - 1) : wr.out[h].k # kind

\* the place in the output of the header `idnum 0 obj`
Header(idnum) == CHOOSE j \in 1..Len(wr.out) : wr.out[j].k = "obj" /\ wr.out[j].id = idnum

\* C9: a write(), whether it returns or raises, emits objects in id order
\* from 1 and gives every row it writes the position of its object; one
\* that returns has emitted the N objects of the object list
\* (as it is after the sweep) in id order 1..N, then a table of N + 1 rows:
\* row 0 is (0, 65535, f) and row i is in use, of generation 0, at the
\* position at which `i 0 obj` was written; /Size is N + 1 and startxref is
\* the position at which `xref` was written.
C9_WriteOutput ==
    /\ last.op = "write" =>
          /\ \E k \in 0..Len(wr.objects) :
                [i \in 1..Len(Chunks("obj")) |-> Chunks("obj")[i].id] = [i \in 1..k |-> i]
          /\ \A i \in 2..Len(Chunks("row")) :
                Chunks("row")[i].offset = PositionOf(Header(i - 1))
    /\ (last.op = "write" /\ last.exc = "none") =>
        LET N == Len(wr.objects) IN
        /\ [i \in 1..Len(Chunks("obj")) |-> Chunks("obj")[i].id] = [i \in 1..N |-> i]
        /\ \A j \in 1..Len(wr.out) :
              wr.out[j].k \in {"obj", "body", "endobj"} => j < First("xref")
        /\ Len(Chunks("row")) = N + 1
        /\ \A j \in 1..Len(wr.out) : wr.out[j].k = "row" => j > First("xref")
        /\ Chunks("subsection") = <<[k |-> "subsection", start |-> 0, count |-> N + 1,
                                     n |-> 3 + Digits(N + 1)]>>
        /\ Chunks("row")[1] = [k |-> "row", id |-> 0, offset |-> 0, generation |-> 65535,
                               state |-> "f", n |-> 20]
        /\ \A i \in 1..N :
              Chunks("row")[i + 1] = [k |-> "row", id |-> i, offset |-> PositionOf(Header(i)),
                                      generation |-> 0, state |-> "n", n |-> 20]
        /\ Len(Chunks("trailerdict")) = 1
        /\ Chunks("trailerdict")[1].size = N + 1
        /\ Len(Chunks("startxref")) = 1
        /\ Chunks("startxref")[1].offset = PositionOf(First("xref"))

C9_Witness ==
    /\ last.op = "write"
    /\ last.exc = "none"
    /\ Len(wr.objects) >= 5
    /\ wr.encrypt.t # "None"


-----------------------------------------------------------------------------
(* Closed documents                                                        *)

\* PdfDocument.close(): the stream is closed; nothing else of the reader
\* changes
Close(st, name) == SetR(st, [st.readers[name] EXCEPT !.closed = TRUE])

\* reader.close()
ReaderClose(name) ==
    /\ MayCall
    /\ ~readers[name].closed
    /\ Outcome("close", IndirectObject(0, 0, name), Return(Close(State, name), Null))

\* reader.get_object(ref), among the calls made on a writer and its sources
CallGetObject(ref) ==
    /\ MayCall
    /\ Outcome("get_object", ref, GetObject(State, ref.pdf, ref, 0))

\* the references asked of the first source: its page, its content stream
\* at both generations, the head of the free list and an id it has not
ClosedRequests ==
    {IndirectObject(3, 0, "R1"), IndirectObject(4, 0, "R1"), IndirectObject(4, 1, "R1"),
     IndirectObject(0, 65535, "R1"), IndirectObject(9, 0, "R1")}

\* two sources, strict or not, whose pages have been asked for, and a writer
InitClosed ==
    \E g \in {0, 1}, strict \in BOOLEAN :
        LET st0 == [heap |-> EmptyMap, wr |-> NoWriter, warnings |-> {}, swept |-> {},
                    readers |-> [n \in {"R1", "R2"} |->
                                    NewReader(n, Document(g, n = "R1",
                                                          IF n = "R1" THEN 0 ELSE 1), strict)]]
            st1 == GetPage(Constructed(Constructed(st0, "R1"), "R2"), "R1", 0).st
            st2 == PdfFileWriterInit(st1)
        IN  /\ heap = st2.heap
            /\ readers = st2.readers
            /\ wr = st2.wr
            /\ last = [op |-> "none", pdf |-> "", ref |-> None, ret |-> Null,
                       exc |-> "none", hit |-> FALSE, warnings |-> {}, swept |-> {},
                       n |-> 0]

NextClosed ==
    \/ \E ref \in ClosedRequests : CallGetObject(ref)
    \/ ReaderClose("R1")
    \/ \E page \in PageArgs : WriterAddPage(page)
    \/ \E ref \in CloneArgs : IndirectObjectClone(ref)
    \/ WriterWrite

SpecClosed == InitClosed /\ [][NextClosed]_vars

\* C11 as claimed: a get_object call on a closed reader ends with an error.
C11_ClosedReaderFails ==
    (last.op = "get_object" /\ readers[last.ref.pdf].closed) => last.exc # "none"

\* an entry of the writer's object list holds a reference into a closed
\* document
HoldsClosedReference ==
    \E i \in 1..Len(wr.objects) :
        /\ IsPtr(wr.objects[i])
        /\ \E k \in 1..Len(heap[wr.objects[i].a].items) :
              LET v == heap[wr.objects[i].a].items[k].v
              IN  IsRef(v) /\ v.pdf # "W" /\ readers[v.pdf].closed

\* C12 as claimed: cloning a reference into a closed document, and a write
\* whose sweep meets such a reference, raise and leave the object list as
\* it was.
C12_ClosedSourceRaises ==
    /\ [][(last'.n = last.n + 1 /\ last'.op = "clone" /\ readers[last'.ref.pdf].closed)
             => (last'.exc # "none" /\ wr'.objects = wr.objects)]_vars
    /\ [][(last'.n = last.n + 1 /\ last'.op = "write" /\ HoldsClosedReference)
             => (last'.exc # "none" /\ wr'.objects = wr.objects)]_vars


-----------------------------------------------------------------------------
(* Indexing dictionaries and arrays                                        *)

\* DictionaryObject.rawGet(key): dict.__getitem__(self, key)
DictionaryRawGet(st, cell, key) ==
    IF key \notin Keys(cell) THEN Raise(st, "KeyError") ELSE Return(st, RawGet(cell, key))

\* an array whose indexing resolves the element it holds
ArrayGetItemResolved(st, cell, i) ==
    IF i < 0 \/ i >= Len(cell.items) THEN Raise(st, "IndexError")
    ELSE IF IsRef(cell.items[i + 1].v) THEN ResolveRef(st, cell.items[i + 1].v, 0)
    ELSE Return(st, cell.items[i + 1].v)

\* ArrayObject[i]: ArrayObject defines no __getitem__, the one of list
\* returns the element held
ArrayGetItem(st, cell, i) ==
    IF i < 0 \/ i >= Len(cell.items) THEN Raise(st, "IndexError")
    ELSE Return(st, cell.items[i + 1].v)

\* ArrayObject.rawGet(i): ArrayObject defines no rawGet
ArrayRawGet(st, cell, i) == Raise(st, "AttributeError")

\* what a call indexes: the object at address a, by key or by position i
Index(a, key, i) == [t |-> "index", a |-> a, key |-> key, i |-> i]

\* the object the reader has cached for a reference
CachedObject(ref) == readers[ref.pdf].cached_objs[<<ref.generation, ref.idnum>>]

\* the array a dictionary holds under a key
ArrayOf(ref, key) == RawGet(heap[CachedObject(ref).a], key)

\* obj[key], obj being the dictionary reader.get_object(ref) returned
CallGetItem(ref, key) ==
    /\ MayCall
    /\ CacheHit(readers[ref.pdf], ref)
    /\ Outcome("getitem", Index(CachedObject(ref).a, key, 0),
               GetItem(State, heap[CachedObject(ref).a], key, 0))

\* obj.rawGet(key)
CallRawGet(ref, key) ==
    /\ MayCall
    /\ CacheHit(readers[ref.pdf], ref)
    /\ Outcome("rawGet", Index(CachedObject(ref).a, key, 0),
               DictionaryRawGet(State, heap[CachedObject(ref).a], key))

\* obj[key][i], obj[key] being an array held directly
CallArrayGetItem(ref, key, i) ==
    /\ MayCall
    /\ CacheHit(readers[ref.pdf], ref)
    /\ Outcome("array_getitem", Index(ArrayOf(ref, key).a, "", i),
               ArrayGetItem(State, heap[ArrayOf(ref, key).a], i))

\* obj[key].rawGet(i)
CallArrayRawGet(ref, key, i) ==
    /\ MayCall
    /\ CacheHit(readers[ref.pdf], ref)
    /\ Outcome("array_rawGet", Index(ArrayOf(ref, key).a, "", i),
               ArrayRawGet(State, heap[ArrayOf(ref, key).a], i))

\* the page tree and the page of the first source, and the keys asked
AccessRefs == {IndirectObject(2, 0, "R1"), IndirectObject(3, 0, "R1")}
AccessKeys == {"/Type", "/Parent", "/Kids", "/Contents", "/Count", "/Missing"}

NextAccess ==
    \/ \E ref \in AccessRefs, key \in AccessKeys : CallGetItem(ref, key)
    \/ \E ref \in AccessRefs, key \in AccessKeys : CallRawGet(ref, key)
    \/ \E i \in 0..1 : CallArrayGetItem(IndirectObject(2, 0, "R1"), "/Kids", i)
    \/ \E i \in 0..1 : CallArrayRawGet(IndirectObject(2, 0, "R1"), "/Kids", i)

SpecAccess == InitClosed /\ [][NextAccess]_vars

\* the value the indexed object holds at the key or position asked
Held == IF last.ref.key = "" THEN heap[last.ref.a].items[last.ref.i + 1].v
        ELSE RawGet(heap[last.ref.a], last.ref.key)

\* the key or position asked is one the indexed object has
Holds == IF last.ref.key = "" THEN last.ref.i < Len(heap[last.ref.a].items)
         ELSE last.ref.key \in Keys(heap[last.ref.a])

Indexing == last.op \in {"getitem", "rawGet", "array_getitem", "array_rawGet"} /\ Holds

\* C13 as claimed: indexing a dictionary or an array returns an object that
\* is no reference, and the raw accessor of either returns the value held.
C13_IndexingResolves ==
    Indexing =>
        /\ last.op \in {"getitem", "array_getitem"} /\ last.exc = "none" => ~IsRef(last.ret)
        /\ last.op \in {"rawGet", "array_rawGet"} => last.exc = "none" /\ last.ret = Held

\* C13: indexing a dictionary by key returns the resolved object, the one
\* the document has for the reference held, and never a reference; rawGet
\* returns the value held, unresolved.  Indexing an array by position
\* returns the element held, unresolved: the reference itself when the
\* element is one.  An array has no raw accessor.
C13_DictionaryResolvesArrayHolds ==
    Indexing =>
        /\ last.op = "getitem" /\ last.exc = "none" =>
              /\ ~IsRef(last.ret)
              /\ IsRef(Held) => last.ret = CachedObject(Held)
              /\ ~IsRef(Held) => last.ret = Held
        /\ last.op = "rawGet" => last.exc = "none" /\ last.ret = Held
        /\ last.op = "array_getitem" => last.exc = "none" /\ last.ret = Held
        /\ last.op = "array_rawGet" => last.exc = "AttributeError"

C13_Witness ==
    /\ Indexing
    /\ last.op = "array_getitem"
    /\ last.exc = "none"
    /\ IsRef(last.ret)
    /\ CacheHit(readers[last.ret.pdf], last.ret)
    /\ IsPtr(CachedObject(last.ret))


-----------------------------------------------------------------------------
(* Chains of references                                                    *)
(*                                                                         *)
(* A document whose objects 3 and 4 are written as a reference each:       *)
(* `3 0 obj next[3] 0 R endobj`.  The catalog (1) holds 3 0 R under /A.    *)

ChainIds == {3, 4}

ChainBody(x, next) ==
    IF x \in ChainIds THEN IndirectObject(next[x], 0, "")
    ELSE [t |-> "cell", data |-> None, cls |-> "dict",
          items |-> IF x = 1 THEN <<Item("/Type", Name("/Catalog")),
                                    Item("/Pages", IndirectObject(2, 0, "")),
                                    Item("/A", IndirectObject(3, 0, ""))>>
                    ELSE <<Item("/Type", Name("/Pages")), Item("/Count", Num(0))>>]

ChainDocument(next) ==
    [startxref |-> SecOff(1),
     xref |-> [o \in {SecOff(1)} |->
                 [kind |-> "table",
                  subsections |-> <<[start |-> 0,
                                     rows |-> <<Row(0, 65535, "f")>> \o
                                              [x \in 1..4 |-> Row(ObjOff(1, x), 0, "n")]]>>,
                  trailer |-> [k \in {"/Size", "/Root"} |->
                                 IF k = "/Size" THEN Num(5) ELSE IndirectObject(1, 0, "")]]],
     objs |-> [o \in {ObjOff(1, x) : x \in 1..4} |->
                 [idnum |-> o % 10, generation |-> 0, body |-> ChainBody(o % 10, next)]]]

\* ref.getObject()
CallResolve(ref) ==
    /\ MayCall
    /\ Outcome("getObject", ref, ResolveRef(State, ref, 0))

\* a reader of a chain document, strict or not, whose catalog has been read
InitChain ==
    \E next \in [ChainIds -> {2, 3, 4, 9}], strict \in BOOLEAN :
        LET st0 == [heap |-> EmptyMap, wr |-> NoWriter, warnings |-> {}, swept |-> {},
                    readers |-> [n \in {"R1"} |-> NewReader(n, ChainDocument(next), strict)]]
            st1 == GetObject(Constructed(st0, "R1"), "R1", IndirectObject(1, 0, "R1"), 0).st
        IN  /\ heap = st1.heap
            /\ readers = st1.readers
            /\ wr = NoWriter
            /\ last = [op |-> "none", pdf |-> "", ref |-> None, ret |-> Null,
                       exc |-> "none", hit |-> FALSE, warnings |-> {}, swept |-> {},
                       n |-> 0]

NextChain ==
    \/ \E x \in 1..4 : CallResolve(IndirectObject(x, 0, "R1"))
    \/ \E x \in ChainIds : CallGetObject(IndirectObject(x, 0, "R1"))
    \/ CallGetItem(IndirectObject(1, 0, "R1"), "/A")

SpecChain == InitChain /\ [][NextChain]_vars

\* what the file holds as the body of object x
WrittenAs(x) == R1.stream.objs[ObjOff(1, x)].body

\* where the references written from object x on lead within k more
\* steps: to an object that is no reference, to an id the file does not
\* define, or nowhere (the chain comes back to one of its references)
RECURSIVE Leads(_, _)
Leads(x, k) ==
    IF x \notin 1..4 THEN [to |-> "undefined", x |-> x]
    ELSE IF ~IsRef(WrittenAs(x)) THEN [to |-> "object", x |-> x]
    ELSE IF k = 0 THEN [to |-> "cycle", x |-> x]
    ELSE Leads(WrittenAs(x).idnum, k - 1)

\* the reference a call resolves: the one given, or the one held under the
\* key
Resolving == last.op = "getObject" \/ (last.op = "getitem" /\ last.ref.key = "/A")

ResolvedId == IF last.op = "getObject" THEN last.ref.idnum ELSE 3

-----------------------------------------------------------------------------
(* Numbers                                                                 *)
(*                                                                         *)
(* A real is [t |-> "real", m, e], the decimal m / 10^e.  The text of a    *)
(* number is its sign, the digits before the point as a number, whether a  *)
(* point is written, and the `places` digits after it as a number.         *)

RECURSIVE Pow10(_)
Pow10(n) == IF n = 0 THEN 1 ELSE 10 * Pow10(n - 1)

Real(m, e) == [t |-> "real", m |-> m, e |-> e]

Abs(n) == IF n < 0 THEN 0 - n ELSE n

Text(neg, whole, dot, frac, places) ==
    [neg |-> neg, whole |-> whole, dot |-> dot, frac |-> frac, places |-> places]

\* o__[:-1] while the last character is "0": the digits after the point
\* without the zeros at their end
RECURSIVE StripZeros(_, _)
StripZeros(frac, places) ==
    IF places = 0 \/ frac % 10 # 0 THEN [frac |-> frac, places |-> places]
    ELSE StripZeros(frac \div 10, places - 1)

\* "%.5f" % self, as the number of 1/100000 it prints; up is the way the
\* binary value of a decimal half rounds
Rounded5(v, up) ==
    IF v.e <= 5 THEN Abs(v.m) * Pow10(5 - v.e)
    ELSE LET d == Pow10(v.e - 5)
             q == Abs(v.m) \div d
             rem == Abs(v.m) % d
         IN  IF 2 * rem > d \/ (2 * rem = d /\ up) THEN q + 1 ELSE q

\* FloatObject.__repr__
FloatRepr(v, up) ==
    IF Abs(v.m) % Pow10(v.e) = 0
    THEN Text(v.m < 0, Abs(v.m) \div Pow10(v.e), FALSE, 0, 0)
    ELSE LET q == Rounded5(v, up)
             kept == StripZeros(q % Pow10(5), 5)
         IN  Text(v.m < 0, q \div Pow10(5), TRUE, kept.frac, kept.places)

\* NumberObject.writeToStream and FloatObject.writeToStream: repr(self)
NumberRepr(v, up) ==
    IF v.t = "num" THEN Text(v.v < 0, Abs(v.v), FALSE, 0, 0) ELSE FloatRepr(v, up)

\* NumberObject.readFromStream: a FloatObject when the text has a point, a
\* NumberObject otherwise
NumberReadFromStream(text) ==
    IF text.dot
    THEN Real((IF text.neg THEN 0 - 1 ELSE 1) * (text.whole * Pow10(text.places) + text.frac),
              text.places)
    ELSE Num((IF text.neg THEN 0 - 1 ELSE 1) * text.whole)

\* the numbers written: integers, and reals of up to MaxPlaces places
Mantissas == {0 - 30, 0 - 4, 1, 5, 15, 20, 300, 12345}

Numbers ==
    {Num(n) : n \in {0 - 12, 0, 7, 1000}}
    \cup {Real(m, e) : m \in Mantissas, e \in 1..MaxPlaces}

InitNumber ==
    /\ heap = EmptyMap
    /\ readers = EmptyMap
    /\ wr = NoWriter
    /\ \E v \in Numbers :
          last = [op |-> "none", obj |-> v, text |-> Text(FALSE, 0, FALSE, 0, 0), ret |-> Null]

\* obj.writeToStream(stream, None)
NumberWriteToStream ==
    /\ last.op = "none"
    /\ \E up \in BOOLEAN :
          last' = [last EXCEPT !.op = "writeToStream", !.text = NumberRepr(last.obj, up)]
    /\ UNCHANGED <<heap, readers, wr>>

\* NumberObject.readFromStream(stream) on what was written
NumberRead ==
    /\ last.op = "writeToStream"
    /\ last' = [last EXCEPT !.op = "readFromStream", !.ret = NumberReadFromStream(last.text)]
    /\ UNCHANGED <<heap, readers, wr>>

NextNumber == NumberWriteToStream \/ NumberRead

SpecNumber == InitNumber /\ [][NextNumber]_vars

\* a real with the fewest places that give its value
RECURSIVE Lowest(_)
Lowest(v) == IF v.e = 0 \/ v.m % 10 # 0 THEN v ELSE Lowest(Real(v.m \div 10, v.e - 1))

\* two numbers of one kind and one value
SameNumber(a, b) ==
    /\ a.t = b.t
    /\ IF a.t = "num" THEN a.v = b.v ELSE Lowest(a) = Lowest(b)

\* C15 as claimed: the number read from what a number was written as is of
\* the same kind (integer or real) and of the same value; an integer is
\* written without a point and a real with no zero at its end.
C15_NumberRoundTrip ==
    /\ last.op \in {"writeToStream", "readFromStream"} =>
          /\ last.obj.t = "num" => ~last.text.dot
          /\ last.text.places > 0 => last.text.frac % 10 # 0
    /\ last.op = "readFromStream" => SameNumber(last.ret, last.obj)

----------------------------------------------------------------------------
\* Codecs (filters.py).  A buffer is a sequence of byte values; the text of
\* the hexadecimal codec is a sequence of digit values 0..15 with EOD for
\* ">"; the text of the LZW codec is a sequence of bits, eight to a byte.

EOD == 16

\* the result of a codec call
Gives(v) == [ret |-> v, exc |-> "none"]
Fails(e) == [ret |-> <<>>, exc |-> e]

\* ASCIIHexCodec.encode(data)
ASCIIHexEncode(data) == Fails("NotImplementedError")

\* the loop of ASCIIHexCodec.decode from character i on, with the output and
\* the pending digit pair so far
RECURSIVE ASCIIHexDecodeFrom(_, _, _, _)
ASCIIHexDecodeFrom(data, i, retval, pair) ==
    IF i > Len(data) THEN Fails("PdfStreamError")
    ELSE IF data[i] = EOD
         THEN IF Len(pair) = 1 THEN Gives(Append(retval, 16 * pair[1]))
                               ELSE Gives(retval)
    ELSE IF Len(pair) = 1
         THEN ASCIIHexDecodeFrom(data, i + 1, Append(retval, 16 * pair[1] + data[i]), <<>>)
    ELSE ASCIIHexDecodeFrom(data, i + 1, retval, <<data[i]>>)

\* ASCIIHexCodec.decode(data)
ASCIIHexDecode(data) == ASCIIHexDecodeFrom(data, 1, <<>>, <<>>)

MAX_ENTRIES == 4096
CLEARDICT == 256
STOP == 257

RECURSIVE Pow2(_)
Pow2(n) == IF n = 0 THEN 1 ELSE 2 * Pow2(n - 1)

\* the bits of a code of the given width, highest first
BitsOf(code, width) == [i \in 1..width |-> (code \div Pow2(width - i)) % 2]

\* LZWCodec.Encoder.__init__ and _reset_table: the 256 single bytes and
\* the two reserved codes are in the table; `table` holds what was added,
\* in the order of the codes from 258 on
NewEncoder ==
    [table |-> <<>>, len |-> 258, bitspercode |-> 9, output |-> <<>>, buffer |-> <<>>]

InCodeTable(e, value) == Len(value) = 1 \/ \E i \in DOMAIN e.table : e.table[i] = value

TableCode(e, value) ==
    IF Len(value) = 1 THEN value[1]
    ELSE 257 + CHOOSE i \in DOMAIN e.table : e.table[i] = value

\* LZWCodec.Encoder._write_code(code)
WriteCode(e, code) == [e EXCEPT !.output = @ \o BitsOf(code, e.bitspercode)]

\* self.table[value] = len(self.table)
TableAdd(e, value) == [e EXCEPT !.table = Append(@, value), !.len = @ + 1]

\* the encoder's table reset when the table is full
ResetTable(e) == [e EXCEPT !.table = <<>>, !.len = 258, !.bitspercode = 9]

\* LZWCodec.Encoder._add_code_to_table(value)
EncoderAddCodeToTable(e, value) ==
    IF e.len >= MAX_ENTRIES THEN TableAdd(ResetTable(WriteCode(e, CLEARDICT)), value)
    ELSE IF e.len >= Pow2(e.bitspercode)
         THEN TableAdd([e EXCEPT !.bitspercode = @ + 1], value)
    ELSE TableAdd(e, value)

\* one turn of the loop of LZWCodec.Encoder.encode, for byte b
EncodeByte(e, b) ==
    IF InCodeTable(e, Append(e.buffer, b)) THEN [e EXCEPT !.buffer = Append(@, b)]
    ELSE [EncoderAddCodeToTable(WriteCode(e, TableCode(e, e.buffer)), Append(e.buffer, b))
             EXCEPT !.buffer = <<b>>]

RECURSIVE EncodeFrom(_, _, _, _)
\* the loop of LZWCodec.Encoder.encode over data[lo..hi], by halves (the
\* table never holds more than MAX_ENTRIES)
EncodeFrom(e, data, lo, hi) ==
    IF lo > hi \/ e.len > MAX_ENTRIES THEN e
    ELSE IF lo = hi THEN EncodeByte(e, data[lo])
    ELSE EncodeFrom(EncodeFrom(e, data, lo, (lo + hi) \div 2), data, (lo + hi) \div 2 + 1, hi)

\* the output filled with zero bits to whole bytes
WholeBytes(bits) == bits \o [i \in 1..((8 - (Len(bits) % 8)) % 8) |-> 0]

\* the end of LZWCodec.Encoder.encode: the code of what is left in the
\* buffer, then the stop code
EncodeEnd(e) ==
    IF ~InCodeTable(e, e.buffer) THEN Fails("KeyError")
    ELSE Gives(WholeBytes(WriteCode(WriteCode(e, TableCode(e, e.buffer)), STOP).output))

\* LZWCodec.encode(data)
LZWEncode(data) == EncodeEnd(EncodeFrom(WriteCode(NewEncoder, CLEARDICT), data, 1, Len(data)))

\* LZWCodec.Decoder.__init__ and _reset_dict; `dict` holds what was added,
\* in the order of the codes from 258 on
NewDecoder ==
    [dict |-> <<>>, dictindex |-> 258, bitspercode |-> 9, pos |-> 1,
     output |-> <<>>, c_w |-> CLEARDICT, exc |-> "running"]

\* self.dict[code]: a single byte, an added entry, or the empty bytes the
\* list was filled with
DictEntry(d, code) ==
    IF code < 256 THEN <<code>>
    ELSE IF code - 257 \in DOMAIN d.dict THEN d.dict[code - 257]
    ELSE <<>>

RECURSIVE BitsValue(_, _, _)
BitsValue(data, from, width) ==
    IF width = 0 THEN 0
    ELSE 2 * BitsValue(data, from, width - 1) + data[from + width - 1]

\* LZWCodec.Decoder._read_code(): -1 when the data ends inside the code
ReadCode(d, data) ==
    IF d.pos + d.bitspercode - 1 > Len(data) THEN 0 - 1
    ELSE BitsValue(data, d.pos, d.bitspercode)

\* LZWCodec.Decoder._add_code_to_table(data)
DecoderAddCodeToTable(d, entry) ==
    [d EXCEPT !.dict = IF d.dictindex - 257 \in DOMAIN @
                       THEN [@ EXCEPT ![d.dictindex - 257] = entry]
                       ELSE Append(@, entry),
              !.dictindex = @ + 1,
              !.bitspercode = IF d.dictindex + 1 >= Pow2(@) /\ @ < 12 THEN @ + 1 ELSE @]

\* one turn of the loop of LZWCodec.Decoder.decode for a code that is
\* neither the end of the data, STOP nor CLEARDICT; p_w is the code before
DecodeCode(d, p_w, c_w) ==
    IF p_w = CLEARDICT
    THEN [d EXCEPT !.output = @ \o DictEntry(d, c_w)]
    ELSE IF c_w < d.dictindex
         THEN DecoderAddCodeToTable(
                  [d EXCEPT !.output = @ \o DictEntry(d, c_w)],
                  Append(DictEntry(d, p_w), DictEntry(d, c_w)[1]))
    ELSE DecoderAddCodeToTable(
             [d EXCEPT !.output = @ \o Append(DictEntry(d, p_w), DictEntry(d, p_w)[1])],
             Append(DictEntry(d, p_w), DictEntry(d, p_w)[1]))

\* the byte the turn takes the first of: IndexError when it is of an empty
\* entry, or when the table has no place left for the new entry
TurnFails(d, p_w, c_w) ==
    /\ p_w # CLEARDICT
    /\ \/ DictEntry(d, IF c_w < d.dictindex THEN c_w ELSE p_w) = <<>>
       \/ d.dictindex >= MAX_ENTRIES

\* one turn of the loop of LZWCodec.Decoder.decode, c_w being the code read
\* at d.pos and d.c_w the code before it; exc tells how the loop ended
DecodeTurn(d, data, c_w) ==
    IF c_w = 0 - 1 THEN [d EXCEPT !.exc = "PdfReadError"]
    ELSE IF c_w = STOP THEN [d EXCEPT !.exc = "none"]
    ELSE IF c_w = CLEARDICT
         THEN [d EXCEPT !.dictindex = 258, !.bitspercode = 9,
                        !.pos = @ + d.bitspercode, !.c_w = c_w]
    ELSE IF TurnFails(d, d.c_w, c_w) THEN [d EXCEPT !.exc = "IndexError"]
    ELSE [DecodeCode(d, d.c_w, c_w) EXCEPT !.pos = @ + d.bitspercode, !.c_w = c_w]

RECURSIVE DecodeTurns(_, _, _)
\* the loop, by halves of the n turns it can take at most
DecodeTurns(d, data, n) ==
    IF d.exc # "running" \/ n = 0 THEN d
    ELSE IF n = 1 THEN DecodeTurn(d, data, ReadCode(d, data))
    ELSE DecodeTurns(DecodeTurns(d, data, n \div 2), data, n - n \div 2)

DecoderResult(d) == IF d.exc = "none" THEN Gives(d.output) ELSE Fails(d.exc)

\* LZWCodec.decode(data): a turn reads nine bits or more
LZWDecode(data) == DecoderResult(DecodeTurns(NewDecoder, data, Len(data) \div 9 + 1))

Codecs == {"ASCIIHexCodec", "LZWCodec"}

Encode(codec, data) ==
    IF codec = "ASCIIHexCodec" THEN ASCIIHexEncode(data) ELSE LZWEncode(data)

Decode(codec, data) ==
    IF codec = "ASCIIHexCodec" THEN ASCIIHexDecode(data) ELSE LZWDecode(data)

RECURSIVE BuffersOf(_, _)
\* the buffers of at most n of the given bytes
BuffersOf(bytes, n) ==
    IF n = 0 THEN {<<>>}
    ELSE BuffersOf(bytes, n - 1)
             \cup {Append(b, x) : b \in BuffersOf(bytes, n - 1), x \in bytes}

\* a buffer whose last code is written as the decoder's table reaches 512
\* entries, and the one a byte shorter
LongBuffer(n) == [i \in 1..n |-> i - 1]

Buffers == BuffersOf({0, 97, 255}, MaxBuffer) \cup {LongBuffer(254), LongBuffer(255)}

InitCodec ==
    /\ heap = EmptyMap
    /\ readers = EmptyMap
    /\ wr = NoWriter
    /\ \E b \in Buffers :
          last = [op |-> "none", codec |-> "none", data |-> b, text |-> <<>>,
                  ret |-> <<>>, exc |-> "none"]

\* codec.encode(data)
CodecEncode(codec) ==
    /\ last.op = "none"
    /\ last' = [last EXCEPT !.op = "encode", !.codec = codec,
                            !.text = Encode(codec, last.data).ret,
                            !.exc = Encode(codec, last.data).exc]
    /\ UNCHANGED <<heap, readers, wr>>

\* codec.decode(text) of what the codec encoded
CodecDecode ==
    /\ last.op = "encode"
    /\ last.exc = "none"
    /\ last' = [last EXCEPT !.op = "decode",
                            !.ret = Decode(last.codec, last.text).ret,
                            !.exc = Decode(last.codec, last.text).exc]
    /\ UNCHANGED <<heap, readers, wr>>

\* ASCIIHexCodec.decode(text) of a text of digits that the caller wrote
ASCIIHexDecodeText ==
    /\ last.op = "none"
    /\ Len(last.data) <= MaxBuffer
    /\ \E eod \in {<<>>, <<EOD>>} :
          last' = [last EXCEPT !.op = "decodeText", !.codec = "ASCIIHexCodec",
                      !.text = [i \in 1..Len(last.data) |-> last.data[i] % 16] \o eod,
                      !.ret = ASCIIHexDecode([i \in 1..Len(last.data) |-> last.data[i] % 16] \o eod).ret,
                      !.exc = ASCIIHexDecode([i \in 1..Len(last.data) |-> last.data[i] % 16] \o eod).exc]
    /\ UNCHANGED <<heap, readers, wr>>

NextCodec ==
    \/ \E codec \in Codecs : CodecEncode(codec)
    \/ CodecDecode
    \/ ASCIIHexDecodeText

SpecCodec == InitCodec /\ [][NextCodec]_vars

\* C16 as claimed: every buffer, the empty one included, is encoded by each
\* reversible codec, and decoding what was encoded gives the buffer back.
C16_CodecRoundTrip ==
    /\ last.op = "encode" => last.exc = "none"
    /\ last.op = "decode" => last.exc = "none" /\ last.ret = last.data

----------------------------------------------------------------------------
\* Decoding a stream by its filters (filters.py).  A stream has its /Filter
\* list, its data (a text of the hexadecimal codec) and the keys of its
\* /DecodeParms and /DecodeParams dictionaries.

\* one filter of the loop of decode_stream_data applied to data
ApplyFilter(stream, filter_type, data) ==
    IF filter_type \in {"/ASCIIHexDecode", "/AHx"} THEN ASCIIHexDecode(data)
    ELSE IF filter_type \in {"/DCTDecode", "/JPXDecode"} THEN Gives(data)
    ELSE IF filter_type = "/Crypt"
         THEN IF "/Name" \notin stream.DecodeParams /\ "/Type" \notin stream.DecodeParams
              THEN Gives(data)
              ELSE Fails("NotImplementedError")
    ELSE Fails("NotImplementedError")

RECURSIVE DecodeFilters(_, _, _)
\* the loop of decode_stream_data from filter i on; res is the data so far
DecodeFilters(stream, res, i) ==
    IF res.exc # "none" \/ i > Len(stream.Filter) THEN res
    ELSE DecodeFilters(stream, ApplyFilter(stream, stream.Filter[i], res.ret), i + 1)

\* decode_stream_data(stream)
StreamDecodedData(stream) ==
    IF stream.data # <<>> THEN DecodeFilters(stream, Gives(stream.data), 1)
    ELSE Gives(stream.data)

FilterNames == {"/ASCIIHexDecode", "/DCTDecode", "/Crypt", "/Foo"}

RECURSIVE FilterLists(_)
FilterLists(n) ==
    IF n = 0 THEN {<<>>}
    ELSE FilterLists(n - 1) \cup {Append(l, f) : l \in FilterLists(n - 1), f \in FilterNames}

ParameterKeys == {{}, {"/Name"}, {"/Type"}, {"/Columns"}}

Streams ==
    [Filter : FilterLists(MaxFilters), data : {<<>>, <<EOD>>, <<6, 1, EOD>>},
     DecodeParms : ParameterKeys, DecodeParams : ParameterKeys]

InitStream ==
    /\ heap = EmptyMap
    /\ readers = EmptyMap
    /\ wr = NoWriter
    /\ \E stream \in Streams :
          last = [op |-> "none", stream |-> stream, ret |-> <<>>, exc |-> "none"]

\* decode_stream_data(stream)
CallDecodeStreamData ==
    /\ last.op = "none"
    /\ last' = [last EXCEPT !.op = "decode_stream_data",
                            !.ret = StreamDecodedData(last.stream).ret,
                            !.exc = StreamDecodedData(last.stream).exc]
    /\ UNCHANGED <<heap, readers, wr>>

NextStream == CallDecodeStreamData

SpecStream == InitStream /\ [][NextStream]_vars

Recognised ==
    {"/FlateDecode", "/Fl", "/ASCIIHexDecode", "/AHx", "/LZWDecode", "/LZW",
     "/ASCII85Decode", "/A85", "/DCTDecode", "/JPXDecode", "/CCITTFaxDecode", "/Crypt"}

\* the stream names a filter that cannot be applied: an unrecognised name
\* or /Crypt with /Name or /Type among its decode parameters
Unsupported(stream) ==
    \E i \in DOMAIN stream.Filter :
        \/ stream.Filter[i] \notin Recognised
        \/ /\ stream.Filter[i] = "/Crypt"
           /\ (stream.DecodeParms \cup stream.DecodeParams) \cap {"/Name", "/Type"} # {}

\* C17 as claimed: decode_stream_data fails for every stream with a filter
\* of an unrecognised name or a /Crypt filter whose decode parameters have
\* /Name or /Type, whatever the data (empty included) and wherever the filter
\* stands in the list.
C17_UnsupportedFilterFails ==
    (last.op = "decode_stream_data" /\ Unsupported(last.stream)) => last.exc # "none"

----------------------------------------------------------------------------
\* Encrypted documents (pdfreader.py).  A string, and the data of a stream,
\* is the set of keys its plain bytes are enciphered under: RC4 is the XOR
\* with the key's stream, so enciphering twice under a key gives the bytes
\* back.  An object is a number, a string, or a dictionary, array or stream
\* with its values in order.

EStr(under) == [t |-> "str", under |-> under]
EDict(items) == [t |-> "dict", items |-> items]
EArray(items) == [t |-> "array", items |-> items]
EStream(items, under) == [t |-> "stream", items |-> items, under |-> under]

\* utils.py RC4Encrypt(key, plaintext)
RC4Encrypt(key, under) == (under \ {key}) \cup ({key} \ under)

\* _get_object_by_ref, lines 353-358: the key of the object
ObjectKey(decryption_key, ref) == <<decryption_key, ref.idnum, ref.generation>>

RECURSIVE DecryptObj(_, _)
\* PdfFileReader._decrypt_obj(obj, key)
DecryptObj(obj, key) ==
    IF obj.t = "str" THEN EStr(RC4Encrypt(key, obj.under))
    ELSE IF obj.t = "stream" THEN [obj EXCEPT !.under = RC4Encrypt(key, @)]
    ELSE IF obj.t \in {"dict", "array"}
    THEN [obj EXCEPT !.items = [i \in DOMAIN @ |-> DecryptObj(@[i], key)]]
    ELSE obj

\* _get_object_by_ref, lines 346-362, retval being what read_object read
DecryptRead(r, ref, retval) ==
    IF ~r.override_encryption /\ r.is_encrypted
    THEN IF r.decryption_key = "None" THEN Raise(r, "PdfReadError")
         ELSE Return(r, DecryptObj(retval, ObjectKey(r.decryption_key, ref)))
    ELSE Return(r, retval)

\* get_object, lines 506-508: what was read is cached and returned
CachedRead(r, ref, res) ==
    IF res.exc # "none" THEN res
    ELSE Return([r EXCEPT !.cached_objs = Put(@, ref.idnum, res.ret)], res.ret)

\* PdfFileReader.get_object(ref) of a reader whose objects are all in use in
\* a classic table; `st` of the result is the reader
EncryptedGetObject(r, ref) ==
    IF ref.idnum \in DOMAIN r.cached_objs THEN Return(r, r.cached_objs[ref.idnum])
    ELSE IF ref.idnum \notin DOMAIN r.objs THEN Raise(r, "PdfReadError")
    ELSE CachedRead(r, ref, DecryptRead(r, ref, r.objs[ref.idnum]))

\* the document key and the objects of the file, each string and each
\* stream's data enciphered under the key of its object
DocumentKey == "K"

Enciphered(id) == {ObjectKey(DocumentKey, [idnum |-> id, generation |-> 0])}

EncryptedObjects ==
    [id \in 1..5 |->
        IF id = 1 THEN EStr(Enciphered(id))
        ELSE IF id = 2
        THEN EDict(<<EStr(Enciphered(id)), EArray(<<EStr(Enciphered(id)), Num(7)>>)>>)
        ELSE IF id = 3 THEN EStream(<<Num(7), EStr(Enciphered(id))>>, Enciphered(id))
        ELSE IF id = 4 THEN EStream(<<Num(7)>>, Enciphered(id))
        ELSE Num(7)]

InitEncrypted ==
    /\ heap = EmptyMap
    /\ wr = NoWriter
    /\ \E encrypted \in BOOLEAN :
          readers = [is_encrypted |-> encrypted, override_encryption |-> FALSE,
                     decryption_key |-> "None", cached_objs |-> EmptyMap,
                     objs |-> EncryptedObjects]
    /\ last = [op |-> "none", ref |-> [idnum |-> 0, generation |-> 0], ret |-> Null,
               exc |-> "none", hit |-> FALSE, before |-> EmptyMap]

EncryptedOutcome(op, ref, res) ==
    /\ readers' = [res.st EXCEPT !.override_encryption = FALSE]
    /\ last' = [op |-> op, ref |-> ref, ret |-> res.ret, exc |-> res.exc,
                hit |-> ref.idnum \in DOMAIN readers.cached_objs,
                before |-> readers.cached_objs]
    /\ UNCHANGED <<heap, wr>>

EncryptedRefs == {[idnum |-> id, generation |-> 0] : id \in 1..6}

\* reader.get_object(ref)
CallEncryptedGetObject(ref) ==
    EncryptedOutcome("get_object", ref, EncryptedGetObject(readers, ref))

\* get_object(ref) inside `self._override_encryption = True ... finally:
\* self._override_encryption = False` (lines 181-185, 949-953)
CallOverriddenGetObject(ref) ==
    EncryptedOutcome("overridden", ref,
                     EncryptedGetObject([readers EXCEPT !.override_encryption = TRUE], ref))

\* _decrypt, lines 969-971: the password matched
SetDecryptionKey ==
    /\ readers.is_encrypted
    /\ readers.decryption_key = "None"
    /\ readers' = [readers EXCEPT !.decryption_key = DocumentKey]
    /\ last' = [last EXCEPT !.op = "decrypt", !.hit = FALSE, !.exc = "none", !.ret = Null]
    /\ UNCHANGED <<heap, wr>>

NextEncrypted ==
    \/ \E ref \in EncryptedRefs : CallEncryptedGetObject(ref)
    \/ \E ref \in EncryptedRefs : CallOverriddenGetObject(ref)
    \/ SetDecryptionKey

SpecEncrypted == InitEncrypted /\ [][NextEncrypted]_vars

RECURSIVE Deciphered(_, _)
\* the object with the transform of the key applied to every string and to
\* every stream's data
Deciphered(obj, key) ==
    IF obj.t = "str" THEN EStr(RC4Encrypt(key, obj.under))
    ELSE IF obj.t = "stream"
    THEN [obj EXCEPT !.under = RC4Encrypt(key, @),
                     !.items = [i \in DOMAIN @ |-> Deciphered(@[i], key)]]
    ELSE IF obj.t \in {"dict", "array"}
    THEN [obj EXCEPT !.items = [i \in DOMAIN @ |-> Deciphered(@[i], key)]]
    ELSE obj

\* get_object read the object of the file: the reference is of an object of
\* the file that was not in the cache
ReadFromFile == ~last.hit /\ last.ref.idnum \in DOMAIN readers.objs

\* C18 as claimed: on an encrypted document, a get_object outside override
\* mode that reads an object fails and leaves the cache as it was when no
\* key is set; with a key it returns the object with every string and every
\* stream's data deciphered under the key of (id, generation, document key);
\* in override mode it returns the object as the file has it.
C18_EncryptedGetObject ==
    (readers.is_encrypted /\ ReadFromFile) =>
        /\ (last.op = "get_object" /\ readers.decryption_key = "None") =>
              last.exc # "none" /\ readers.cached_objs = last.before
        /\ (last.op = "get_object" /\ readers.decryption_key # "None") =>
              /\ last.exc = "none"
              /\ last.ret = Deciphered(readers.objs[last.ref.idnum],
                                       ObjectKey(readers.decryption_key, last.ref))
        /\ last.op = "overridden" =>
              last.exc = "none" /\ last.ret = readers.objs[last.ref.idnum]

\* C29 as claimed: with the decryption key set, what get_object returns
\* outside override mode is the object of the file with the transform of its
\* own key applied once, whatever was resolved before and in whatever mode.
C29_DecryptedOnce ==
    (last.op = "get_object" /\ last.exc = "none"
        /\ readers.is_encrypted /\ readers.decryption_key # "None") =>
        last.ret = DecryptObj(readers.objs[last.ref.idnum],
                              ObjectKey(readers.decryption_key, last.ref))

----------------------------------------------------------------------------
\* The walk over files whose sections link anywhere.  Section i lies at
\* SecOff(i); what links it to others is
\*   "end"   no link
\*   "prev"  /Prev to section i + 1
\*   "back"  /Prev to section 1
\*   "stm"   (a classic table) /XRefStm to section i + 1, /Prev to i + 2
\* and every value of its trailer, or stream dictionary, tells the section.

TrailerKeySets ==
    {{"/Root", "/Info"}, {"/Encrypt", "/ID"}, {"/Root", "/Encrypt", "/Info", "/ID"}}

WalkChoices ==
    [kind : {"table"}, link : {"end", "prev", "back", "stm"}, keys : TrailerKeySets]
        \cup [kind : {"xstream"}, link : {"end", "prev", "back"}, keys : TrailerKeySets]

WalkChains == UNION {[1..n -> WalkChoices] : n \in 1..MaxSections}

\* the links of section i as trailer entries
WalkLinks(c, i) ==
    IF c.link = "prev" THEN [k \in {"/Prev"} |-> Num(SecOff(i + 1))]
    ELSE IF c.link = "back" THEN [k \in {"/Prev"} |-> Num(SecOff(1))]
    ELSE IF c.link = "stm"
    THEN [k \in {"/XRefStm", "/Prev"} |->
             IF k = "/XRefStm" THEN Num(SecOff(i + 1)) ELSE Num(SecOff(i + 2))]
    ELSE EmptyMap

WalkTrailer(c, i) ==
    [k \in c.keys \cup DOMAIN WalkLinks(c, i) |->
        IF k \in c.keys THEN IndirectObject(i, 0, "") ELSE WalkLinks(c, i)[k]]

\* the keys of a dictionary in the order a file has them
KeyOrder == <<"/Type", "/Root", "/Encrypt", "/Info", "/ID", "/XRefStm", "/Prev">>

RECURSIVE KeysIn(_, _)
KeysIn(keys, j) ==
    IF j > Len(KeyOrder) THEN <<>>
    ELSE (IF KeyOrder[j] \in keys THEN <<KeyOrder[j]>> ELSE <<>>) \o KeysIn(keys, j + 1)

WalkSection(c, i) ==
    IF c.kind = "table"
    THEN [kind |-> "table",
          subsections |-> <<[start |-> 0, rows |-> <<Row(0, 65535, "f")>>]>>,
          trailer |-> WalkTrailer(c, i)]
    ELSE [kind |-> "xstream", idnum |-> XrefStmId(i, FALSE), generation |-> 0,
          entries |-> <<>>,
          keys |-> KeysIn({"/Type"} \cup DOMAIN WalkTrailer(c, i), 1),
          dict |-> [k \in {"/Type"} \cup DOMAIN WalkTrailer(c, i) |->
                      IF k = "/Type" THEN Name("/XRef") ELSE WalkTrailer(c, i)[k]]]

WalkFile(chain) ==
    [startxref |-> SecOff(1),
     xref |-> [o \in {SecOff(i) : i \in 1..Len(chain)} |-> WalkSection(chain[o \div 100], o \div 100)],
     objs |-> EmptyMap]

InitWalk ==
    /\ heap = EmptyMap
    /\ wr = NoWriter
    /\ last = NoCall
    /\ \E chain \in WalkChains, strict \in BOOLEAN :
          readers = [n \in {"R1"} |-> NewReader("R1", WalkFile(chain), strict)]

NextWalk == PdfFileReaderInit("R1")

SpecWalk == InitWalk /\ [][NextWalk]_vars

\* C19 as claimed: the walk never reads a section it has read before, so it
\* ends on every file, also on one whose /Prev links form a cycle.
C19_NoSectionTwice ==
    \A i, j \in DOMAIN R1.walked : i # j => R1.walked[i] # R1.walked[j]

\* the trailer of a classic section, the dictionary of a stream section
SectionKeys(off) ==
    IF R1.stream.xref[off].kind = "table" THEN R1.stream.xref[off].trailer
    ELSE R1.stream.xref[off].dict

\* the places in the walk of the sections that have the key
HaveKey(k) == {i \in DOMAIN R1.walked : k \in DOMAIN SectionKeys(R1.walked[i])}

FirstWith(k) == CHOOSE i \in HaveKey(k) : \A j \in HaveKey(k) : i <= j

\* the walk has ended: the loop was left with no further link
WalkEnded == last.op = "init" /\ R1.pc # "walk" /\ last.exc \in {"none", "KeyError"}

\* C20: after the walk, the trailer has each of /Root, /Encrypt, /Info and
\* /ID with the value of the first section of the walk that has the key, and
\* has no such key when no section has it.
C20_TrailerKeepsFirst ==
    WalkEnded =>
        \A k \in {"/Root", "/Encrypt", "/Info", "/ID"} :
            IF HaveKey(k) = {} THEN k \notin DOMAIN R1.trailer
            ELSE /\ k \in DOMAIN R1.trailer
                 /\ R1.trailer[k] = SectionKeys(R1.walked[FirstWith(k)])[k]

\* a walk that read a classic table and a stream section has ended, two of
\* its sections giving /Info
C20_Witness ==
    /\ WalkEnded
    /\ R1.pc = "ready"
    /\ Len(R1.walked) >= 2
    /\ \E i, j \in HaveKey("/Info") : i # j
    /\ \E i \in DOMAIN R1.walked : R1.stream.xref[R1.walked[i]].kind = "xstream"
    /\ \E i \in DOMAIN R1.walked : R1.stream.xref[R1.walked[i]].kind = "table"

----------------------------------------------------------------------------
\* What the sweep of write leaves behind

\* a value that is a stream object itself, not a reference to one
IsStream(v) == IsPtr(v) /\ heap[v.a].cls = "stream"

\* the dictionary or array a value is or, for a reference of the writer,
\* names in the object list
CellsOf(v) ==
    IF IsPtr(v) THEN {v.a}
    ELSE IF IsRef(v) /\ v.pdf = "W" /\ v.idnum \in 1..Len(wr.objects)
            /\ IsPtr(wr.objects[v.idnum])
    THEN {wr.objects[v.idnum].a}
    ELSE {}

CellsBelow(S) ==
    S \cup UNION {UNION {CellsOf(heap[a].items[i].v) : i \in 1..Len(heap[a].items)} : a \in S}

RECURSIVE CellsFrom(_)
CellsFrom(S) == IF CellsBelow(S) = S THEN S ELSE CellsFrom(CellsBelow(S))

\* the dictionaries and arrays the sweep from the root goes through
SweptCells == CellsFrom(CellsOf(wr.root))

\* the last operation was a write whose sweep returned
SweepReturned == last.op = "write" /\ wr.out # <<>>

\* C22: after the sweep of a write, no dictionary or array the sweep went
\* through holds a stream object as a value: the value is a reference to the
\* stream, which is in the object list.
C22_NoInlineStream ==
    SweepReturned =>
        \A a \in SweptCells : \A i \in 1..Len(heap[a].items) :
            ~IsStream(heap[a].items[i].v)

\* the sweep of a write has returned, and a dictionary it went through refers
\* to a stream of a reader that the sweep put on the object list
C22_Witness ==
    /\ SweepReturned
    /\ \E a \in SweptCells : \E i \in 1..Len(heap[a].items) :
          /\ IsRef(heap[a].items[i].v) /\ heap[a].items[i].v.pdf = "W"
          /\ IsStream(wr.objects[heap[a].items[i].v.idnum])
          /\ wr.objects[heap[a].items[i].v.idnum].a.doc # "W"

\* C28 as claimed: after the sweep of a write has returned, every position
\* of the writer's object list holds an object, not a placeholder, and every
\* reference held by a dictionary or array the sweep went through is a
\* reference of the writer with an id in 1..N, N the length of the list.
C28_SweptClean ==
    SweepReturned =>
        /\ \A i \in 1..Len(wr.objects) : Assigned(wr.objects[i])
        /\ \A a \in SweptCells : \A i \in 1..Len(heap[a].items) :
              IsRef(heap[a].items[i].v) =>
                 /\ heap[a].items[i].v.pdf = "W"
                 /\ heap[a].items[i].v.idnum \in 1..Len(wr.objects)

----------------------------------------------------------------------------
\* Parsing a dictionary (generic.py).  The bytes are the (key, value) pairs
\* in the order written; a value is a number, a string, null, a boolean, or
\* an array or dictionary given by its number of entries.

Sized(cls, size) == [t |-> cls, size |-> size]

\* bool(value): a number that is not zero, a string, array or dictionary
\* that is not empty; NullObject and BooleanObject define neither __bool__
\* nor __len__
Truthy(v) ==
    IF v.t = "num" THEN v.v # 0
    ELSE IF v.t = "str" THEN v.s # ""
    ELSE IF v.t \in {"array", "dict"} THEN v.size # 0
    ELSE TRUE

\* data.get(key) is a true value
Got(data, key) ==
    \E i \in 1..Len(data) : data[i].k = key /\ Truthy(data[i].v)

\* data[key] = value
Stored(data, key, value) ==
    IF \E i \in 1..Len(data) : data[i].k = key
    THEN [i \in 1..Len(data) |-> IF data[i].k = key THEN Item(key, value) ELSE data[i]]
    ELSE Append(data, Item(key, value))

RECURSIVE ReadPairs(_, _, _, _, _)
\* the loop of DictionaryObject.readFromStream from pair i on
ReadPairs(pairs, i, strict, data, warned) ==
    IF i > Len(pairs) THEN [ret |-> data, exc |-> "none", warned |-> warned]
    ELSE IF ~Got(data, pairs[i].k)
    THEN ReadPairs(pairs, i + 1, strict, Stored(data, pairs[i].k, pairs[i].v), warned)
    ELSE IF strict THEN [ret |-> <<>>, exc |-> "PdfReadError", warned |-> warned]
    ELSE ReadPairs(pairs, i + 1, strict, data, TRUE)

\* DictionaryObject.readFromStream(stream, pdf) of `<< pairs >>`
DictionaryReadFromStream(pairs, strict) == ReadPairs(pairs, 1, strict, <<>>, FALSE)

PairValues ==
    <<Num(0), Num(5), Str(""), Str("a"), Null, Sized("array", 0), Sized("dict", 0)>>

PairChoices == {Item(k, PairValues[j]) : k \in {"/A", "/B"}, j \in 1..Len(PairValues)}

PairLists == UNION {[1..n -> PairChoices] : n \in 0..MaxKeys}

InitDictionary ==
    /\ heap = EmptyMap
    /\ readers = EmptyMap
    /\ wr = NoWriter
    /\ \E pairs \in PairLists, strict \in BOOLEAN :
          last = [op |-> "none", pairs |-> pairs, strict |-> strict, ret |-> <<>>,
                  exc |-> "none", warned |-> FALSE]

\* DictionaryObject.readFromStream(stream, pdf)
CallDictionaryRead ==
    /\ last.op = "none"
    /\ last' = [last EXCEPT !.op = "readFromStream",
                   !.ret = DictionaryReadFromStream(last.pairs, last.strict).ret,
                   !.exc = DictionaryReadFromStream(last.pairs, last.strict).exc,
                   !.warned = DictionaryReadFromStream(last.pairs, last.strict).warned]
    /\ UNCHANGED <<heap, readers, wr>>

NextDictionary == CallDictionaryRead

SpecDictionary == InitDictionary /\ [][NextDictionary]_vars

\* a key is written twice
KeyTwice(pairs) == \E i, j \in 1..Len(pairs) : i < j /\ pairs[i].k = pairs[j].k

FirstOf(pairs, key) ==
    pairs[CHOOSE i \in 1..Len(pairs) :
              pairs[i].k = key /\ \A j \in 1..(i - 1) : pairs[j].k # key].v

\* C23 as claimed: parsing a dictionary whose bytes have a key twice fails
\* with PdfReadError in strict mode; outside strict mode it warns and keeps,
\* for every key, the value of the first occurrence, whatever that value is
\* (the number 0, an empty string, an empty array or dictionary included).
C23_FirstOccurrenceKept ==
    (last.op = "readFromStream" /\ KeyTwice(last.pairs)) =>
        IF last.strict THEN last.exc = "PdfReadError"
        ELSE /\ last.exc = "none" /\ last.warned
             /\ \A i \in 1..Len(last.ret) :
                   last.ret[i].v = FirstOf(last.pairs, last.ret[i].k)

----------------------------------------------------------------------------
\* Parsing the body of a stream (generic.py).  A file is a sequence of
\* one-byte strings, a cursor counts the bytes before it.

EndStream == <<"e", "n", "d", "s", "t", "r", "e", "a", "m">>

Tream == <<"t", "r", "e", "a", "m">>

\* utils.WHITESPACES
WHITESPACES == {" ", "\n", "\r", "\t"}

\* stream.read(n) at cursor pos: the bytes read, short at the end of file
ReadBytes(bytes, pos, n) ==
    IF pos + n > Len(bytes) THEN SubSeq(bytes, pos + 1, Len(bytes))
    ELSE SubSeq(bytes, pos + 1, pos + n)

\* the cursor after stream.read(n)
AfterRead(bytes, pos, n) == IF pos + n > Len(bytes) THEN Len(bytes) ELSE pos + n

RECURSIVE AfterNonWhitespace(_, _)
\* the cursor after read_non_whitespace(stream); the byte it returns is the
\* one before that cursor, or nothing at the end of file
AfterNonWhitespace(bytes, pos) ==
    IF pos >= Len(bytes) THEN pos
    ELSE IF bytes[pos + 1] \in WHITESPACES THEN AfterNonWhitespace(bytes, pos + 1)
    ELSE pos + 1

\* read_non_whitespace(stream) at cursor pos
NonWhitespace(bytes, pos) ==
    IF AfterNonWhitespace(bytes, pos) > pos /\ bytes[AfterNonWhitespace(bytes, pos)] \notin WHITESPACES
    THEN <<bytes[AfterNonWhitespace(bytes, pos)]>>
    ELSE <<>>

RECURSIVE AfterSpaces(_, _)
\* `while eol == " ": eol = stream.read(1)`: the cursor after the byte that
\* ends the loop
AfterSpaces(bytes, pos) ==
    IF pos < Len(bytes) /\ bytes[pos + 1] = " " THEN AfterSpaces(bytes, pos + 1)
    ELSE AfterRead(bytes, pos, 1)

StreamResult(cls, start, data, pos, exc) ==
    [cls |-> cls, start |-> start, data |-> data, pos |-> pos, exc |-> exc]

\* from `data["__streamdata__"] = stream.read(length)` on, the payload
\* starting at cursor start
ReadPayload(bytes, start, length) ==
    LET data == ReadBytes(bytes, start, length)
        p1 == AfterNonWhitespace(bytes, AfterRead(bytes, start, length))
        e__ == NonWhitespace(bytes, AfterRead(bytes, start, length))
        ndstream == ReadBytes(bytes, p1, 8)
        pos == AfterRead(bytes, p1, 8)
    IN  IF e__ \o ndstream = EndStream
        THEN StreamResult("StreamObject", start, data, pos, "none")
        ELSE IF ReadBytes(bytes, pos - 10, 9) = EndStream
        THEN StreamResult("StreamObject", start, SubSeq(data, 1, Len(data) - 1),
                          AfterRead(bytes, pos - 10, 9), "none")
        ELSE StreamResult("none", start, <<>>, pos, "PdfReadError")

\* the cursor after the end of line that follows the keyword stream, the
\* byte eol being the one before cursor p
AfterEol(bytes, p) ==
    IF bytes[p] = "\r"
    THEN IF ReadBytes(bytes, p, 1) # <<"\n">> THEN AfterRead(bytes, p, 1) - 1
         ELSE AfterRead(bytes, p, 1)
    ELSE p

\* pdf.getObject(length) reads the object at its own offset, here the start
\* of the file, and the cursor is put back: t__ = stream.tell();
\* length = pdf.getObject(length); stream.seek(t__, 0)
LengthCursor(t__, length) ==
    IF length.indirect THEN [moved |-> 0, back |-> t__].back ELSE t__

\* DictionaryObject.readFromStream after the `>>` of the dictionary, whose
\* /Length is length
StreamBody(bytes, pos, length) ==
    LET p1 == AfterNonWhitespace(bytes, pos)
        eol == AfterSpaces(bytes, AfterRead(bytes, p1, 5))
    IN  IF NonWhitespace(bytes, pos) = <<"s">> /\ ReadBytes(bytes, p1, 5) = Tream
        THEN IF eol > Len(bytes) \/ bytes[eol] \notin {"\n", "\r"} \/ eol = AfterRead(bytes, p1, 5)
             THEN StreamResult("none", eol, <<>>, eol, "AssertionError")
             ELSE ReadPayload(bytes, LengthCursor(AfterEol(bytes, eol), length), length.v)
        ELSE StreamResult("DictionaryObject", pos, <<>>, pos, "none")

RECURSIVE Payloads(_)
Payloads(n) ==
    IF n = 0 THEN {<<>>}
    ELSE Payloads(n - 1) \cup {Append(d, b) : d \in Payloads(n - 1), b \in {"a", "\n"}}

Keywords ==
    { <<"s", "t", "r", "e", "a", "m", "\n">>,
      <<"\n", "s", "t", "r", "e", "a", "m", "\r", "\n">>,
      <<"s", "t", "r", "e", "a", "m", " ", "\n">>,
      <<"s", "t", "r", "e", "a", "m", "\r">> }

Tails == { <<>>, <<"\n">>, <<"\n", "e", "n", "d", "o", "b", "j">> }

StreamFiles ==
    { k \o d \o sep \o EndStream \o t :
        k \in Keywords, d \in Payloads(MaxPayload), sep \in {<<>>, <<"\n">>}, t \in Tails }
    \cup { <<"\n", "e", "n", "d", "o", "b", "j">>, <<"s", "t", "r", "e", "a", "m", "a">> }

InitBody ==
    /\ heap = EmptyMap
    /\ readers = EmptyMap
    /\ wr = NoWriter
    /\ \E bytes \in StreamFiles, indirect \in BOOLEAN :
          \E v \in 0..Len(bytes) :
             last = [op |-> "none", bytes |-> bytes,
                     length |-> [indirect |-> indirect, v |-> v],
                     ret |-> StreamResult("none", 0, <<>>, 0, "none")]

\* DictionaryObject.readFromStream(stream, pdf), the dictionary read
CallReadBody ==
    /\ last.op = "none"
    /\ last' = [last EXCEPT !.op = "readFromStream",
                            !.ret = StreamBody(last.bytes, 0, last.length)]
    /\ UNCHANGED <<heap, readers, wr>>

NextBody == CallReadBody

SpecBody == InitBody /\ [][NextBody]_vars

\* the bytes before cursor pos are `endstream`
JustPast(bytes, pos) == pos >= 9 /\ SubSeq(bytes, pos - 8, pos) = EndStream

\* C24 as claimed: a parsed stream body has as payload exactly the /Length
\* bytes from the payload start, or one byte less when `endstream` stands
\* exactly one byte before the end of those /Length bytes; every other
\* mismatch of the length is a PdfReadError; after a successful parse the
\* cursor is just past `endstream`.
C24_StreamBody ==
    (last.op = "readFromStream" /\ last.ret.cls # "DictionaryObject"
        /\ last.ret.exc # "AssertionError") =>
        IF last.ret.exc = "none"
        THEN /\ JustPast(last.bytes, last.ret.pos)
             /\ \/ /\ Len(last.ret.data) = last.length.v
                   /\ last.ret.data = SubSeq(last.bytes, last.ret.start + 1,
                                             last.ret.start + last.length.v)
                \/ /\ Len(last.ret.data) = last.length.v - 1
                   /\ last.ret.pos = last.ret.start + last.length.v + 8
        ELSE last.ret.exc = "PdfReadError"

----------------------------------------------------------------------------
\* A stream object and its /Length (generic.py).  A stream is its class, its
\* dictionary entries and _data, the payload bytes or None.

NoData == [none |-> TRUE, b |-> <<>>]

Data(b) == [none |-> FALSE, b |-> b]

StreamObj(cls, items, data) == [cls |-> cls, items |-> items, data |-> data]

ItemKeys(items) == {items[i].k : i \in 1..Len(items)}

\* del data[key]
Without(items, key) == SelectSeq(items, LAMBDA it : it.k # key)

ItemAt(items, key) == items[CHOOSE i \in 1..Len(items) : items[i].k = key].v

\* StreamObject.initialize_from_dictionnary(data): data holds /Length and
\* the payload read by the parser
InitializeFromDictionary(items, payload) ==
    StreamObj(IF "/Filter" \in ItemKeys(items)
              THEN IF "/Type" \in ItemKeys(items) /\ ItemAt(items, "/Type") = Name("/ObjStm")
                   THEN "ObjectStream" ELSE "EncodedStreamObject"
              ELSE "DecodedStreamObject",
              Without(items, "/Length"), Data(payload))

RECURSIVE Xor(_, _)
\* a ^ b
Xor(a, b) ==
    IF a = 0 /\ b = 0 THEN 0
    ELSE (((a % 2) + (b % 2)) % 2) + 2 * Xor(a \div 2, b \div 2)

\* the byte t__ of the key stream at position x__; the permutation s__ of
\* RC4 is not modelled, only that the byte depends on the key and on the
\* position
KeyStream(key, x__) == ((key * x__) + 7) % 256

\* a cipher that pads its input to whole blocks
RC4BytesPadded(key, plaintext) ==
    Append([x__ \in 1..Len(plaintext) |-> Xor(plaintext[x__], KeyStream(key, x__))], 0)

\* utils.RC4Encrypt(key, plaintext) on bytes: each byte is xored with the
\* byte of the key stream at its position
RC4Bytes(key, plaintext) ==
    [x__ \in 1..Len(plaintext) |-> Xor(plaintext[x__], KeyStream(key, x__))]

\* what StreamObject.writeToStream writes: the dictionary, /Length
\* included, and the bytes between "\nstream\n" and "\nendstream";
\* encryption_key is 0 for None
StreamWritten(obj, encryption_key) ==
    [items |-> Append(Without(obj.items, "/Length"), Item("/Length", Num(Len(obj.data.b)))),
     payload |-> IF encryption_key # 0 THEN RC4Bytes(encryption_key, obj.data.b)
                 ELSE obj.data.b]

NothingWritten == [items |-> <<>>, payload |-> <<>>]

StreamDictionaries ==
    { <<Item("/Length", Num(n))>> \o rest :
        n \in 0..MaxBuffer,
        rest \in { <<>>, <<Item("/Filter", Name("/FlateDecode"))>>,
                   <<Item("/Type", Name("/ObjStm")), Item("/Filter", Name("/FlateDecode"))>> } }

ShortBuffers == BuffersOf({0, 97, 255}, MaxBuffer)

EncryptionKeys == {0, 5}

InitStreamObject ==
    /\ heap = EmptyMap
    /\ readers = EmptyMap
    /\ wr = NoWriter
    /\ \/ \E items \in StreamDictionaries, payload \in ShortBuffers :
             last = [op |-> "parse", obj |-> InitializeFromDictionary(items, payload),
                     key |-> 0, out |-> NothingWritten, exc |-> "none", n |-> 0]
       \/ last = [op |-> "new", obj |-> StreamObj("DecodedStreamObject", <<>>, NoData),
                  key |-> 0, out |-> NothingWritten, exc |-> "none", n |-> 0]

\* <stream>.set_data(data)
CallSetData(data) ==
    /\ MayCall
    /\ last' = IF last.obj.cls = "DecodedStreamObject"
               THEN [last EXCEPT !.op = "set_data", !.obj.data = Data(data),
                                 !.exc = "none", !.n = @ + 1]
               ELSE [last EXCEPT !.op = "set_data", !.exc = "NotImplementedError",
                                 !.n = @ + 1]
    /\ UNCHANGED <<heap, readers, wr>>

\* <stream>.writeToStream(stream, encryption_key)
CallStreamWriteToStream(encryption_key) ==
    /\ MayCall
    /\ last' = IF last.obj.data.none
               THEN [last EXCEPT !.op = "writeToStream", !.key = encryption_key,
                                 !.out = NothingWritten, !.exc = "TypeError", !.n = @ + 1]
               ELSE [last EXCEPT !.op = "writeToStream", !.key = encryption_key,
                                 !.obj.items = Without(StreamWritten(last.obj, encryption_key).items,
                                                       "/Length"),
                                 !.out = StreamWritten(last.obj, encryption_key),
                                 !.exc = "none", !.n = @ + 1]
    /\ UNCHANGED <<heap, readers, wr>>

NextStreamObject ==
    \/ \E data \in ShortBuffers : CallSetData(data)
    \/ \E encryption_key \in EncryptionKeys : CallStreamWriteToStream(encryption_key)

SpecStreamObject == InitStreamObject /\ [][NextStreamObject]_vars

\* C25 as claimed: every stream object carries a /Length entry equal to the
\* number of bytes of its payload, right after parsing, after set_data and
\* after writeToStream.
C25_LengthCarried ==
    (~last.obj.data.none) =>
        /\ "/Length" \in ItemKeys(last.obj.items)
        /\ ItemAt(last.obj.items, "/Length") = Num(Len(last.obj.data.b))

\* C25 as the code has it: a stream object holds no /Length entry, neither
\* after parsing nor after set_data nor after writeToStream; the /Length
\* that writeToStream writes is the number of payload bytes it writes
\* between `stream` and `endstream`, which is the number of bytes of _data,
\* with or without an encryption key.
C25_LengthWritten ==
    /\ "/Length" \notin ItemKeys(last.obj.items)
    /\ (last.op = "writeToStream" /\ last.exc = "none") =>
          /\ ItemAt(last.out.items, "/Length") = Num(Len(last.out.payload))
          /\ Len(last.out.payload) = Len(last.obj.data.b)

C25_Witness ==
    /\ last.op = "writeToStream" /\ last.exc = "none" /\ last.key # 0
    /\ Len(last.obj.data.b) = MaxBuffer
    /\ last.out.payload # last.obj.data.b
    /\ last.n >= 2

----------------------------------------------------------------------------
\* Reading a literal string (generic.py read_string_from_stream).  The input
\* is a sequence of one-byte strings, the text read a sequence of byte
\* values.

\* ord(tok) of the bytes of the inputs
OrdOf(tok) ==
    CASE tok = "(" -> 40 [] tok = ")" -> 41 [] tok = "\\" -> 92 [] tok = "\n" -> 10
      [] tok = "a" -> 97 [] tok = "0" -> 48 [] tok = "4" -> 52 [] tok = "5" -> 53
      [] tok = "8" -> 56

\* tok.isdigit()
IsDigitByte(tok) == tok \in {"0", "4", "5", "8"}

\* escape_dict, the keys that the inputs have
EscapeDict == {"(", ")", "\\"}

RECURSIVE OctalInt(_)
\* int(tok, base=8) of a sequence of digits without 8 or 9
OctalInt(digits) ==
    IF digits = <<>> THEN 0
    ELSE 8 * OctalInt(SubSeq(digits, 1, Len(digits) - 1)) + (OrdOf(digits[Len(digits)]) - 48)

StringResult(txt, pos, exc) == [txt |-> txt, pos |-> pos, exc |-> exc]

\* the digits of an octal escape whose first digit is before cursor pos:
\* `for _ in range(2): ntok = stream.read(1); if ntok.isdigit(): tok += ntok
\* else: break`; the cursor moves over every byte read, the one that ends
\* the loop included
EscapeDigits(bytes, pos) ==
    IF pos < Len(bytes) /\ IsDigitByte(bytes[pos + 1])
    THEN IF pos + 1 < Len(bytes) /\ IsDigitByte(bytes[pos + 2])
         THEN [tok |-> SubSeq(bytes, pos, pos + 2), pos |-> pos + 2]
         ELSE [tok |-> SubSeq(bytes, pos, pos + 1), pos |-> AfterRead(bytes, pos + 1, 1)]
    ELSE [tok |-> SubSeq(bytes, pos, pos), pos |-> AfterRead(bytes, pos, 1)]

RECURSIVE ReadStringFrom(_, _, _, _)
\* the loop of read_string_from_stream with the cursor at pos
ReadStringFrom(bytes, pos, parens, txt) ==
    IF pos >= Len(bytes) THEN StringResult(<<>>, pos, "PdfStreamError")
    ELSE IF bytes[pos + 1] = "("
    THEN ReadStringFrom(bytes, pos + 1, parens + 1, Append(txt, 40))
    ELSE IF bytes[pos + 1] = ")"
    THEN IF parens = 1 THEN StringResult(txt, pos + 1, "none")
         ELSE ReadStringFrom(bytes, pos + 1, parens - 1, Append(txt, 41))
    ELSE IF bytes[pos + 1] # "\\"
    THEN ReadStringFrom(bytes, pos + 1, parens, Append(txt, OrdOf(bytes[pos + 1])))
    \* a backslash; tok = stream.read(1)
    ELSE IF pos + 1 >= Len(bytes)
    THEN StringResult(<<>>, pos + 1, "PdfStreamError")
    ELSE IF bytes[pos + 2] \in EscapeDict
    THEN ReadStringFrom(bytes, pos + 2, parens, Append(txt, OrdOf(bytes[pos + 2])))
    ELSE IF IsDigitByte(bytes[pos + 2])
    THEN IF \E k \in 1..Len(EscapeDigits(bytes, pos + 2).tok) :
                EscapeDigits(bytes, pos + 2).tok[k] = "8"
         THEN StringResult(<<>>, EscapeDigits(bytes, pos + 2).pos, "ValueError")
         ELSE IF OctalInt(EscapeDigits(bytes, pos + 2).tok) > 255
         THEN StringResult(<<>>, EscapeDigits(bytes, pos + 2).pos, "UnicodeEncodeError")
         ELSE ReadStringFrom(bytes, EscapeDigits(bytes, pos + 2).pos, parens,
                             Append(txt, OctalInt(EscapeDigits(bytes, pos + 2).tok)))
    ELSE IF bytes[pos + 2] = "\n"
    THEN IF pos + 2 < Len(bytes) /\ bytes[pos + 3] = "\n"
         THEN ReadStringFrom(bytes, pos + 3, parens, txt)
         ELSE ReadStringFrom(bytes, pos + 2, parens, txt)
    ELSE StringResult(<<>>, pos + 2, "PdfReadError")

\* read_string_from_stream(stream): the first byte is the opening
\* parenthesis
ReadStringFromStream(bytes) == ReadStringFrom(bytes, AfterRead(bytes, 0, 1), 1, <<>>)

StringBytes == {"(", ")", "\\", "\n", "a", "0", "4", "5", "8"}

StringInputs ==
    { <<"(">> \o body \o <<")">> : body \in UNION {[1..n -> StringBytes] : n \in 0..MaxString} }

InitString ==
    /\ heap = EmptyMap
    /\ readers = EmptyMap
    /\ wr = NoWriter
    /\ \E bytes \in StringInputs :
          last = [op |-> "none", bytes |-> bytes, ret |-> StringResult(<<>>, 0, "none")]

\* read_string_from_stream(stream)
CallReadString ==
    /\ last.op = "none"
    /\ last' = [last EXCEPT !.op = "read_string_from_stream",
                            !.ret = ReadStringFromStream(last.bytes)]
    /\ UNCHANGED <<heap, readers, wr>>

NextString == CallReadString

SpecString == InitString /\ [][NextString]_vars

\* the bytes lo..hi are letters
Letters(bytes, lo, hi) == \A k \in lo..hi : bytes[k] = "a"

\* bytes is `(`, letters, a backslash at i with n octal digits after it,
\* letters, `)`
OctalEscapeAt(bytes, i, n) ==
    /\ i + n < Len(bytes)
    /\ bytes[i] = "\\"
    /\ \A k \in (i + 1)..(i + n) : bytes[k] \in {"0", "4", "5"}
    /\ Letters(bytes, 2, i - 1)
    /\ Letters(bytes, i + n + 1, Len(bytes) - 1)

\* C26 as claimed: in a literal string of letters a backslash followed by one
\* to three octal digits gives the one byte whose value is that octal number
\* modulo 256, and the letters around it are kept.
C26_OctalEscape ==
    last.op = "read_string_from_stream" =>
        \A i \in 2..Len(last.bytes), n \in 1..3 :
            OctalEscapeAt(last.bytes, i, n) =>
                /\ last.ret.exc = "none"
                /\ last.ret.txt =
                      [k \in 1..(i - 2) |-> 97]
                      \o <<OctalInt(SubSeq(last.bytes, i + 1, i + n)) % 256>>
                      \o [k \in 1..(Len(last.bytes) - 1 - i - n) |-> 97]

----------------------------------------------------------------------------
\* The PNG predictors of FlateCodec.decode (filters.py).  data is what
\* decompress returned, a sequence of byte values; index i of a Python row
\* is index i + 1 here.

\* utils.paeth_predictor(left, up_, up_left)
paeth_predictor(left, up_, up_left) ==
    IF Abs(up_ - up_left) <= Abs(left - up_left)
       /\ Abs(up_ - up_left) <= Abs((left + up_ - up_left) - up_left)
    THEN left
    ELSE IF Abs(left - up_left) <= Abs((left + up_ - up_left) - up_left) THEN up_
    ELSE up_left

\* rowdata[i] without the reduction modulo 256
PredictedByteUnreduced(filter_byte, rowdata, prev_rowdata, i) ==
    IF filter_byte = 2 THEN rowdata[i + 1] + prev_rowdata[i + 1]
    ELSE rowdata[i + 1]

\* the value given to rowdata[i], 1 <= i < row_length, for a filter byte
\* 0..4; rowdata holds the new values of the indexes before i
PredictedByte(filter_byte, rowdata, prev_rowdata, i) ==
    IF filter_byte = 1
    THEN IF i >= 2 THEN (rowdata[i + 1] + rowdata[i]) % 256 ELSE rowdata[i + 1]
    ELSE IF filter_byte = 2 THEN (rowdata[i + 1] + prev_rowdata[i + 1]) % 256
    ELSE IF filter_byte = 3
    THEN (rowdata[i + 1]
            + (((IF i > 1 THEN rowdata[i] ELSE 0) + prev_rowdata[i + 1]) \div 2)) % 256
    ELSE IF filter_byte = 4
    THEN (rowdata[i + 1]
            + paeth_predictor(IF i > 1 THEN rowdata[i] ELSE 0, prev_rowdata[i + 1],
                              IF i > 1 THEN prev_rowdata[i] ELSE 0)) % 256
    ELSE rowdata[i + 1]

RECURSIVE PredictRow(_, _, _)
\* the loop over i of one row, from index i on
PredictRow(rowdata, prev_rowdata, i) ==
    IF i >= Len(rowdata) THEN rowdata
    ELSE PredictRow([rowdata EXCEPT ![i + 1] = PredictedByte(rowdata[1], rowdata, prev_rowdata, i)],
                    prev_rowdata, i + 1)

RECURSIVE PredictRows(_, _, _, _, _)
\* the loop over the rows from row on; output is what was written
PredictRows(data, row_length, row, prev_rowdata, output) ==
    IF row >= Len(data) \div row_length THEN Gives(output)
    ELSE IF data[row * row_length + 1] > 4 THEN Fails("PdfReadError")
    ELSE PredictRows(data, row_length, row + 1,
                     PredictRow(SubSeq(data, row * row_length + 1, (row + 1) * row_length),
                                prev_rowdata, 1),
                     output \o Tail(PredictRow(SubSeq(data, row * row_length + 1,
                                                      (row + 1) * row_length),
                                               prev_rowdata, 1)))

\* decode_params.get(key, default)
ParamGet(decode_params, key, default) ==
    IF key \in ItemKeys(decode_params) THEN ItemAt(decode_params, key).v ELSE default

\* FlateCodec.decode(data, decode_params) after data = decompress(data)
FlateDecodePredicted(data, decode_params) ==
    IF decode_params = <<>> \/ ParamGet(decode_params, "/Predictor", 1) = 1 THEN Gives(data)
    ELSE IF ParamGet(decode_params, "/Predictor", 1) < 10
            \/ ParamGet(decode_params, "/Predictor", 1) > 15
    THEN Fails("PdfReadError")
    ELSE IF Len(data) % (ParamGet(decode_params, "/Columns", 1) + 1) # 0
    THEN Fails("AssertionError")
    ELSE PredictRows(data, ParamGet(decode_params, "/Columns", 1) + 1, 0,
                     [i \in 1..(ParamGet(decode_params, "/Columns", 1) + 1) |-> 0], <<>>)

RECURSIVE RowsOf(_, _)
\* data of up to n rows of a filter byte and columns bytes
RowsOf(columns, n) ==
    IF n = 0 THEN {<<>>}
    ELSE RowsOf(columns, n - 1)
         \cup { d \o <<tag>> \o cells :
                  d \in RowsOf(columns, n - 1), tag \in 0..5, cells \in [1..columns -> {1, 255}] }

PredictorParams ==
    { p \o c : p \in {<<>>} \cup {<<Item("/Predictor", Num(n))>> : n \in {1, 2, 10, 12, 15, 16}},
               c \in {<<>>, <<Item("/Columns", Num(2))>>} }

InitPredictor ==
    /\ heap = EmptyMap
    /\ readers = EmptyMap
    /\ wr = NoWriter
    /\ \E decode_params \in PredictorParams :
          \E rows \in RowsOf(ParamGet(decode_params, "/Columns", 1), MaxRows),
             rest \in {<<>>, <<2>>} :
             last = [op |-> "none", data |-> rows \o rest, decode_params |-> decode_params,
                     ret |-> <<>>, exc |-> "none"]

\* FlateCodec.decode(data, decode_params)
CallFlateDecode ==
    /\ last.op = "none"
    /\ last' = [last EXCEPT !.op = "decode",
                   !.ret = FlateDecodePredicted(last.data, last.decode_params).ret,
                   !.exc = FlateDecodePredicted(last.data, last.decode_params).exc]
    /\ UNCHANGED <<heap, readers, wr>>

NextPredictor == CallFlateDecode

SpecPredictor == InitPredictor /\ [][NextPredictor]_vars

ThePredictor == ParamGet(last.decode_params, "/Predictor", 1)

TheColumns == ParamGet(last.decode_params, "/Columns", 1)

TheRows == Len(last.data) \div (TheColumns + 1)

WholeRows == Len(last.data) % (TheColumns + 1) = 0

\* the filter byte of row r, the first row being row 1
TagOf(r) == last.data[(r - 1) * (TheColumns + 1) + 1]

\* C27: with a predictor in 10..15 and data that is whole rows of one filter
\* byte and /Columns bytes, decode returns /Columns bytes for every row, each
\* in 0..255, and in a row whose filter byte is 2 every byte returned is the
\* byte of the row plus the byte returned directly above it (0 in the first
\* row) modulo 256; a filter byte above 4 raises PdfReadError, and so does a
\* predictor that is neither 1 nor in 10..15.
C27_Predictor ==
    last.op = "decode" =>
        /\ (ThePredictor # 1 /\ (ThePredictor < 10 \/ ThePredictor > 15))
              => last.exc = "PdfReadError"
        /\ (ThePredictor >= 10 /\ ThePredictor <= 15 /\ WholeRows) =>
              IF \E r \in 1..TheRows : TagOf(r) > 4 THEN last.exc = "PdfReadError"
              ELSE /\ last.exc = "none"
                   /\ Len(last.ret) = TheRows * TheColumns
                   /\ \A k \in 1..Len(last.ret) : last.ret[k] \in 0..255
                   /\ \A r \in 1..TheRows, c \in 1..TheColumns :
                         TagOf(r) = 2 =>
                            last.ret[(r - 1) * TheColumns + c] =
                               (last.data[(r - 1) * (TheColumns + 1) + 1 + c]
                                  + (IF r = 1 THEN 0
                                     ELSE last.ret[(r - 2) * TheColumns + c])) % 256

C27_Witness ==
    /\ last.op = "decode" /\ last.exc = "none"
    /\ ThePredictor = 12 /\ TheColumns = 2 /\ TheRows = 2 /\ WholeRows
    /\ TagOf(1) = 2 /\ TagOf(2) = 2
    /\ last.data[5] = 255 /\ last.ret[3] = 254

----------------------------------------------------------------------------
\* The page tree of a writer (pdfwriter.py).  The tree is the sequence of
\* its nodes, a node named by its index; parent 0 is no /Parent.  Node 1 is
\* self._pages.

PagesNode(parent, kids, count) ==
    [type |-> "/Pages", parent |-> parent, kids |-> kids, count |-> count]

PageLeaf(parent) == [type |-> "/Page", parent |-> parent, kids |-> <<>>, count |-> 0]

\* _get_page returns the page and the first page number of its group, or
\* the first page number of the next group and -1
PageFound(node, ret2) == [found |-> TRUE, v |-> node, ret2 |-> ret2, exc |-> "none"]

PageNotFound(next) == [found |-> FALSE, v |-> next, ret2 |-> -1, exc |-> "none"]

PageError(exc) == [found |-> FALSE, v |-> 0, ret2 |-> -1, exc |-> exc]

RECURSIVE GetPageIn(_, _, _, _)
RECURSIVE GetPageKids(_, _, _, _, _, _)

\* PdfFileWriter._get_page(page_num, node, first_pagenum)
GetPageIn(tree, page_num, node, first_pagenum) ==
    IF tree[node].type = "/Page"
    THEN IF page_num = first_pagenum THEN PageFound(node, -1)
         ELSE PageNotFound(first_pagenum + 1)
    ELSE IF first_pagenum <= page_num /\ page_num < first_pagenum + tree[node].count
    THEN GetPageKids(tree, page_num, node, 1, first_pagenum, first_pagenum)
    ELSE PageNotFound(first_pagenum + tree[node].count)

\* the loop over node["/Kids"] from kid k on
GetPageKids(tree, page_num, node, k, ret, first_pagenum) ==
    IF k > Len(tree[node].kids) THEN PageError("Exception")
    ELSE IF GetPageIn(tree, page_num, tree[node].kids[k], ret).exc # "none"
    THEN GetPageIn(tree, page_num, tree[node].kids[k], ret)
    ELSE IF GetPageIn(tree, page_num, tree[node].kids[k], ret).found
    THEN PageFound(GetPageIn(tree, page_num, tree[node].kids[k], ret).v,
                   IF GetPageIn(tree, page_num, tree[node].kids[k], ret).ret2 < 0
                   THEN first_pagenum
                   ELSE GetPageIn(tree, page_num, tree[node].kids[k], ret).ret2)
    ELSE GetPageKids(tree, page_num, node, k + 1,
                     GetPageIn(tree, page_num, tree[node].kids[k], ret).v, first_pagenum)

\* list.insert(index, x), index >= 0
ListInsert(list, index, x) ==
    IF index >= Len(list) THEN Append(list, x)
    ELSE SubSeq(list, 1, index) \o <<x>> \o SubSeq(list, index + 1, Len(list))

\* del list[index]
ListDelete(list, index) == SubSeq(list, 1, index) \o SubSeq(list, index + 2, Len(list))

RECURSIVE CountUp(_, _)
\* the loop that adds 1 to the /Count of pp_ and of every /Parent above it
CountUp(tree, pp_) ==
    IF pp_ = 0 THEN tree
    ELSE CountUp([tree EXCEPT ![pp_].count = @ + 1], tree[pp_].parent)

\* the page put under the parent of next_page, found for page_number
InsertUnder(tree, found, page_number) ==
    IF found.exc # "none" THEN [tree |-> tree, page |-> 0, exc |-> found.exc]
    ELSE IF ~found.found THEN [tree |-> tree, page |-> 0, exc |-> "AttributeError"]
    ELSE [tree |-> CountUp([Append(tree, PageLeaf(tree[found.v].parent))
                              EXCEPT ![tree[found.v].parent].kids =
                                        ListInsert(@, page_number - found.ret2, Len(tree) + 1)],
                           tree[found.v].parent),
          page |-> Len(tree) + 1, exc |-> "none"]

\* PdfFileWriter._insert_page(page, page_number) of a new page object, which
\* _add_object puts at the end of the object list
InsertPageAt(tree, page_number) ==
    IF tree[1].count = 0
    THEN [tree |-> CountUp([Append(tree, PageLeaf(1))
                              EXCEPT ![1].kids = ListInsert(@, page_number, Len(tree) + 1)], 1),
          page |-> Len(tree) + 1, exc |-> "none"]
    ELSE IF page_number >= tree[1].count
    THEN InsertUnder(tree, GetPageIn(tree, tree[1].count - 1, 1, 0), tree[1].count)
    ELSE InsertUnder(tree, GetPageIn(tree, page_number, 1, 0), page_number)

\* PdfFileWriter.insert_page(page, index)
InsertPageIndex(tree, index) ==
    IF 0 <= index /\ index <= tree[1].count THEN InsertPageAt(tree, index)
    ELSE [tree |-> tree, page |-> 0, exc |-> "AssertionError"]

Removed(tree, node, ret, exc) == [tree |-> tree, node |-> node, ret |-> ret, exc |-> exc]

RECURSIVE RemovePageIn(_, _, _, _)
RECURSIVE RemovePageKids(_, _, _, _, _)

\* _remove_page(self, page_num, node, first_pagenum) of remove_page; node 0
\* is None
RemovePageIn(tree, page_num, node, first_pagenum) ==
    IF tree[node].type = "/Page"
    THEN IF page_num = first_pagenum THEN Removed(tree, node, -1, "none")
         ELSE Removed(tree, 0, first_pagenum + 1, "none")
    ELSE IF first_pagenum <= page_num /\ page_num < first_pagenum + tree[node].count
    THEN RemovePageKids(tree, page_num, node, 1, first_pagenum)
    ELSE Removed(tree, 0, first_pagenum + tree[node].count, "none")

\* the loop over enumerate(node["/Kids"]) from kid i__ + 1 on
RemovePageKids(tree, page_num, node, k, ret) ==
    IF k > Len(tree[node].kids) THEN Removed(tree, 0, 0, "Exception")
    ELSE IF RemovePageIn(tree, page_num, tree[node].kids[k], ret).exc # "none"
    THEN RemovePageIn(tree, page_num, tree[node].kids[k], ret)
    ELSE IF RemovePageIn(tree, page_num, tree[node].kids[k], ret).ret = -1
    THEN Removed([RemovePageIn(tree, page_num, tree[node].kids[k], ret).tree
                    EXCEPT ![node].kids = ListDelete(@, k - 1), ![node].count = @ - 1],
                 RemovePageIn(tree, page_num, tree[node].kids[k], ret).node,
                 IF tree[node].count - 1 = 0 THEN -1 ELSE -2, "none")
    ELSE IF RemovePageIn(tree, page_num, tree[node].kids[k], ret).ret = -2
    THEN Removed([RemovePageIn(tree, page_num, tree[node].kids[k], ret).tree
                    EXCEPT ![node].count = @ - 1],
                 RemovePageIn(tree, page_num, tree[node].kids[k], ret).node, -2, "none")
    ELSE RemovePageKids(tree, page_num, node, k + 1,
                        RemovePageIn(tree, page_num, tree[node].kids[k], ret).ret)

\* PdfFileWriter.remove_page(page_num)
RemovePage(tree, page_num) ==
    IF ~(0 <= page_num /\ page_num < tree[1].count) THEN Removed(tree, 0, 0, "none")
    ELSE RemovePageIn(tree, page_num, 1, 0)

\* the page trees of a new writer and of writers cloned from a document
PageTrees ==
    { <<PagesNode(0, <<>>, 0)>>,
      <<PagesNode(0, <<2, 3>>, 2), PageLeaf(1), PageLeaf(1)>>,
      <<PagesNode(0, <<2, 5, 6>>, 4), PagesNode(1, <<3, 4>>, 2), PageLeaf(2), PageLeaf(2),
        PageLeaf(1), PageLeaf(1)>>,
      <<PagesNode(0, <<2, 3>>, 2), PageLeaf(1), PagesNode(1, <<4>>, 1), PageLeaf(3)>> }

RECURSIVE LeavesOf(_, _)
RECURSIVE LeavesOfKids(_, _, _)

\* the pages below a node, in order
LeavesOf(tree, node) ==
    IF tree[node].type = "/Page" THEN <<node>> ELSE LeavesOfKids(tree, node, 1)

LeavesOfKids(tree, node, k) ==
    IF k > Len(tree[node].kids) THEN <<>>
    ELSE LeavesOf(tree, tree[node].kids[k]) \o LeavesOfKids(tree, node, k + 1)

InitPages ==
    /\ readers = EmptyMap
    /\ wr = NoWriter
    /\ heap \in PageTrees
    /\ last = [op |-> "none", index |-> 0, page |-> 0, exc |-> "none",
               before |-> LeavesOf(heap, 1), n |-> 0]

PagesOutcome(op, index, tree, page, exc) ==
    /\ heap' = IF exc = "none" THEN tree ELSE heap
    /\ last' = [op |-> op, index |-> index, page |-> page, exc |-> exc,
                before |-> LeavesOf(heap, 1), n |-> last.n + 1]
    /\ UNCHANGED <<readers, wr>>

\* writer.insert_page(page, index)
CallInsertPage(index) ==
    /\ MayCall
    /\ PagesOutcome("insert_page", index, InsertPageIndex(heap, index).tree,
                    InsertPageIndex(heap, index).page, InsertPageIndex(heap, index).exc)

\* writer.add_page(page): insert_page(page, self._pages.getObject()["/Count"])
CallAddPage ==
    /\ MayCall
    /\ PagesOutcome("add_page", heap[1].count, InsertPageIndex(heap, heap[1].count).tree,
                    InsertPageIndex(heap, heap[1].count).page,
                    InsertPageIndex(heap, heap[1].count).exc)

\* writer.remove_page(page_num)
CallRemovePage(page_num) ==
    /\ MayCall
    /\ PagesOutcome("remove_page", page_num, RemovePage(heap, page_num).tree,
                    RemovePage(heap, page_num).node, RemovePage(heap, page_num).exc)

NextPages ==
    \/ \E index \in 0..MaxPages : CallInsertPage(index)
    \/ CallAddPage
    \/ \E page_num \in 0..MaxPages : CallRemovePage(page_num)

SpecPages == InitPages /\ [][NextPages]_vars

\* the nodes of the tree below the root, the root included
RECURSIVE NodesBelow(_, _)
NodesBelow(tree, node) ==
    {node} \cup UNION {NodesBelow(tree, tree[node].kids[k]) : k \in 1..Len(tree[node].kids)}

\* every /Count is the number of pages below its node
CountsRight ==
    \A node \in NodesBelow(heap, 1) :
        heap[node].type = "/Pages" => heap[node].count = Len(LeavesOf(heap, node))

\* C30 as claimed: after any insert_page, add_page and remove_page the /Count
\* of every node of the page tree is the number of pages below it; right
\* after insert_page(page, index), get_page(index) is the page inserted and
\* the other pages are in the order they were in.
C30_PageTree ==
    /\ CountsRight
    /\ (last.op = "insert_page" /\ last.exc = "none") =>
          /\ GetPageIn(heap, last.index, 1, 0).found
          /\ GetPageIn(heap, last.index, 1, 0).v = last.page
          /\ SelectSeq(LeavesOf(heap, 1), LAMBDA p : p # last.page) = last.before

====
